---- MODULE Spec2Model ----
(***************************************************************************)
(* Model of gophish-tools: the gophish-import command (load_landings,      *)
(* load_groups, build_campaigns, main) and the gophish-export command      *)
(* (export_targets, export_campaigns, export_user_reports,                 *)
(* write_campaign_summary, main), run against a GoPhish server that is     *)
(* modelled as five collections of named resources, with the timeline and  *)
(* the statistics of every campaign.  One step of a run is the code        *)
(* between two calls of the GoPhish API, the call included.  set_date is   *)
(* modelled as a function applied to an assessment object.                 *)
(***************************************************************************)
EXTENDS Integers, Sequences, FiniteSets, TLC

VARIABLES
    remote,        \* the server: kind -> list of resources, in listing order
    nextId,        \* the server: kind -> next identifier it assigns
    lag,           \* the server: TRUE when a delete has no visible effect
    timeline,      \* the server: campaign id -> list of events
    clicked,       \* the server: campaign id -> stats.clicked of the summary
    pc,            \* run -> place in the code
    cmd,           \* run -> "import" | "export" | "none"
    file,          \* run -> the assessment document in ASSESSMENT_FILE (import)
    assessment,    \* run -> the assessment document in memory
    assessment_id, \* run -> ASSESSMENT_ID argument (export)
    idx,           \* run -> position of the current for loop
    new,           \* run -> new_page, new_group, new_template, new_smtp
    old,           \* run -> rest of the listing the current for loop walks
    groups,        \* run -> what the local variable `groups` of load_groups is bound to
    tries,         \* run -> create calls issued by the current while loop
    exit,          \* run -> <<>> while the process runs, then << exit status >>
    raised,        \* run -> << >>, or the place of what ended the run with status 1
    export,        \* run -> the local variables of the export functions
    files,         \* run -> the files the export has written
    dates,         \* the assessment object of set_date: its start_date and end_date
    calls,         \* history: every API call issued, in order
    remote0,       \* history: the server as it was before any run
    passed         \* history: the (type_, campaign_date) of every set_date call

vars == << remote, nextId, lag, timeline, clicked, pc, cmd, file, assessment,
           assessment_id, idx, new, old, groups, tries, exit, raised, export, files,
           calls, remote0, dates, passed >>

None == "None"

NoError == << >>

\* ------------------------------------------------------------------ bounds

\* Create attempts one while loop may issue before the model stops following it.
MaxTries == 3

\* Number of same-named resources the server may hold before a run.
MaxDup == 2

\* Number of set_date calls on one assessment object.
MaxCalls == 3

\* ------------------------------------------------------------------ names

Runs == {1, 2}

UpsertKinds == {"page", "group", "template", "smtp"}
Kinds == UpsertKinds \cup {"campaign"}

\* Names are strings, written as tuples of characters.
R1 == << "R", "1" >>
R2 == << "R", "2" >>
Level1 == << "_", "l", "e", "v", "e", "l", "-", "1" >>
Level2 == << "_", "l", "e", "v", "e", "l", "-", "2" >>
NameA == R1 \o << "-", "a" >>
NameB == R1 \o << "-", "b" >>
NameX == R2 \o << "-", "a" >>
CampA == R1 \o << "-", "C", "1" >> \o Level1
CampB == R1 \o << "-", "C", "2" >> \o Level2
CampX == R2 \o << "-", "C", "1" >> \o Level1

\* str.startswith
StartsWith(s, prefix) ==
    /\ Len(prefix) <= Len(s)
    /\ SubSeq(s, 1, Len(prefix)) = prefix

\* ------------------------------------------------------------------ server

\* The message of the Error the server answers a create of a used name with.
ConflictMessage(k) ==
    CASE k = "page" -> "Page name already in use"
      [] k = "group" -> "Group name already in use"
      [] k = "template" -> "Template name already in use"
      [] k = "smtp" -> "SMTP name already in use"

OtherMessage == "Invalid request"

NameInUse(k, name) == \E j \in 1..Len(remote[k]) : remote[k][j].name = name

\* obj with its id set (the key is added when obj has none).
WithId(obj, id) ==
    [f \in DOMAIN obj \cup {"id"} |-> IF f = "id" THEN id ELSE obj[f]]

\* What the server may answer to a create of obj: the conflict error exactly
\* when a resource of that kind and name exists (campaign names are not
\* checked), the stored object otherwise, and at any time another error.
PostResponses(k, obj) ==
    (IF k \in UpsertKinds /\ NameInUse(k, obj.name)
        THEN {[ok |-> FALSE, message |-> ConflictMessage(k)]}
        ELSE {[ok |-> TRUE, obj |-> WithId(obj, nextId[k])]})
    \cup {[ok |-> FALSE, message |-> OtherMessage]}

Stored(k, stored) == [remote EXCEPT ![k] = Append(@, stored)]

\* Mutant: a delete leaves the resource on the server.
Deleted_Kept(k, id) == remote

\* The collection after delete-by-id.
Deleted(k, id) ==
    IF lag THEN remote
    ELSE [remote EXCEPT ![k] = SelectSeq(@, LAMBDA x : x.id # id)]

\* obj without its id.
WithoutId(obj) == [f \in DOMAIN obj \ {"id"} |-> obj[f]]

\* The (kind, name, definition) triples of a server.
Triples(server) ==
    UNION { { << k, server[k][j].name, WithoutId(server[k][j]) >> :
              j \in 1..Len(server[k]) } : k \in Kinds }

\* One API call: what was sent (the object of a post, the id of a delete),
\* the answer ("ok" or the message of the Error), what was returned (the
\* stored object of a post, the listing of a get) and the server after it.
Call(r, op, k, arg, res, out, server) ==
    [run |-> r, op |-> op, kind |-> k, arg |-> arg, res |-> res, out |-> out,
     after |-> Triples(server)]

\* ------------------------------------------------------------------ objects

\* Page() with the fields load_landings sets.
BuildPage(page) ==
    [name |-> page.name,
     capture_credentials |-> page.capture_credentials,
     capture_passwords |-> page.capture_passwords,
     html |-> page.html,
     redirect_url |-> IF page.redirect_url # "" THEN page.redirect_url ELSE None]

\* User() with the fields load_groups sets.
BuildTarget(tgt) ==
    [first_name |-> tgt.first_name,
     last_name |-> tgt.last_name,
     email |-> tgt.email,
     position |-> IF tgt.position # "" THEN tgt.position ELSE None]

BuildGroup(group) ==
    [name |-> group.name,
     targets |-> [t \in 1..Len(group.targets) |-> BuildTarget(group.targets[t])]]

BuildTemplate(campaign) ==
    [name |-> campaign.template.name,
     subject |-> campaign.template.subject,
     html |-> campaign.template.html,
     text |-> campaign.template.text]

BuildSMTP(campaign) ==
    LET smtp == campaign.smtp
        both == "username" \in DOMAIN smtp /\ "password" \in DOMAIN smtp
    IN  [name |-> smtp.name,
         host |-> smtp.host,
         from_address |-> smtp.from_address,
         interface_type |-> "SMTP",
         ignore_cert_errors |-> TRUE,
         username |-> IF both THEN smtp.username ELSE None,
         password |-> IF both THEN smtp.password ELSE None]

BuildCampaign(campaign, new_template, new_smtp) ==
    [name |-> campaign.name,
     groups |-> << campaign.group_name >>,
     page |-> campaign.page_name,
     template |-> new_template,
     smtp |-> new_smtp,
     url |-> campaign.url,
     launch_date |-> campaign.launch_date,
     completed_date |-> campaign.complete_date]

\* ------------------------------------------------------------------ control

Goto(r, place) == pc' = [pc EXCEPT ![r] = place]

\* sys.exit(code); `origin` names what led to it.
SysExit(r, code, origin) ==
    /\ pc' = [pc EXCEPT ![r] = << "main", "exited" >>]
    /\ exit' = [exit EXCEPT ![r] = << code >>]
    /\ raised' = [raised EXCEPT ![r] = origin]

\* An exception leaves load_landings, load_groups or build_campaigns: main's
\* `except Exception` logs it and calls sys.exit(1).
Raise(r, origin) == SysExit(r, 1, origin)

\* Mutant: the for loop stops at the first resource of that name.
Matching_First(listing, name) ==
    LET all == SelectSeq(listing, LAMBDA x : x.name = name)
    IN  IF all = << >> THEN << >> ELSE << Head(all) >>

\* Mutant: the for loop acts on every listed resource.
Matching_All(listing, name) == listing

\* The entries of a listing the body of `for old in listing: if old.name ==
\* name` acts on, in listing order.
Matching(listing, name) == SelectSeq(listing, LAMBDA x : x.name = name)

\* load_groups: groups = assessment["groups"], the list of the document itself,
\* until `groups = api.groups.get()` binds the name to a listing.
OwnGroups == [rebound |-> FALSE, listing |-> << >>]

Server == << remote, nextId, lag, remote0, timeline, clicked >>
Args == << cmd, file, assessment_id >>
DateVars == << dates, passed >>
Exports == << export, files >>

\* ------------------------------------------------------------------ the upsert loop

\* Mutant: on a name conflict the resource found on the server is kept.
UpsertPost_Keep(r, k, message) ==
    /\ pc[r] = << k, "post" >>
    /\ tries[r] < MaxTries
    /\ \E resp \in PostResponses(k, new[r][k]) :
         /\ tries' = [tries EXCEPT ![r] = @ + 1]
         /\ IF resp.ok
               THEN /\ remote' = Stored(k, resp.obj)
                    /\ nextId' = [nextId EXCEPT ![k] = @ + 1]
                    /\ new' = [new EXCEPT ![r][k] = resp.obj]
                    /\ calls' = Append(calls, Call(r, "post", k, new[r][k], "ok", resp.obj,
                                                Stored(k, resp.obj)))
                    /\ Goto(r, << k, "loaded" >>)
                    /\ UNCHANGED << exit, raised >>
               ELSE /\ calls' = Append(calls,
                                  Call(r, "post", k, new[r][k], resp.message, None, remote))
                    /\ UNCHANGED << remote, nextId >>
                    /\ IF resp.message = message
                          THEN /\ new' = [new EXCEPT ![r][k] =
                                             Head(Matching(remote[k], new[r][k].name))]
                               /\ Goto(r, << k, "loaded" >>)
                               /\ UNCHANGED << exit, raised >>
                          ELSE Raise(r, << k, "post" >>) /\ UNCHANGED new
    /\ UNCHANGED << lag, remote0, timeline, clicked, Args, DateVars, Exports, assessment, idx, old, groups >>

\* Mutant: every Error of the create is taken for a name conflict.
UpsertPost_AnyError(r, k, message) ==
    /\ pc[r] = << k, "post" >>
    /\ tries[r] < MaxTries
    /\ \E resp \in PostResponses(k, new[r][k]) :
         /\ tries' = [tries EXCEPT ![r] = @ + 1]
         /\ IF resp.ok
               THEN /\ remote' = Stored(k, resp.obj)
                    /\ nextId' = [nextId EXCEPT ![k] = @ + 1]
                    /\ new' = [new EXCEPT ![r][k] = resp.obj]
                    /\ calls' = Append(calls, Call(r, "post", k, new[r][k], "ok", resp.obj,
                                                Stored(k, resp.obj)))
                    /\ Goto(r, << k, "loaded" >>)
               ELSE /\ calls' = Append(calls,
                                  Call(r, "post", k, new[r][k], resp.message, None, remote))
                    /\ UNCHANGED << remote, nextId, new >>
                    /\ Goto(r, << k, "get" >>)
    /\ UNCHANGED << lag, remote0, timeline, clicked, Args, DateVars, Exports, assessment, idx, old, groups, exit, raised >>

\* Mutant: the second name conflict of a loop is raised (a retry ceiling).
UpsertPost_Ceiling(r, k, message) ==
    /\ pc[r] = << k, "post" >>
    /\ tries[r] < MaxTries
    /\ \E resp \in PostResponses(k, new[r][k]) :
         /\ tries' = [tries EXCEPT ![r] = @ + 1]
         /\ IF resp.ok
               THEN /\ remote' = Stored(k, resp.obj)
                    /\ nextId' = [nextId EXCEPT ![k] = @ + 1]
                    /\ new' = [new EXCEPT ![r][k] = resp.obj]
                    /\ calls' = Append(calls, Call(r, "post", k, new[r][k], "ok", resp.obj,
                                                Stored(k, resp.obj)))
                    /\ Goto(r, << k, "loaded" >>)
                    /\ UNCHANGED << exit, raised >>
               ELSE /\ calls' = Append(calls,
                                  Call(r, "post", k, new[r][k], resp.message, None, remote))
                    /\ UNCHANGED << remote, nextId, new >>
                    /\ IF resp.message = message /\ tries[r] < 1
                          THEN Goto(r, << k, "get" >>) /\ UNCHANGED << exit, raised >>
                          ELSE Raise(r, << k, "post" >>)
    /\ UNCHANGED << lag, remote0, timeline, clicked, Args, DateVars, Exports, assessment, idx, old, groups >>

\* try: new = api.<kind>.post(new); break
\* except Error as e: if e.message == message: ... else: raise
UpsertPost(r, k, message) ==
    /\ pc[r] = << k, "post" >>
    /\ tries[r] < MaxTries
    /\ \E resp \in PostResponses(k, new[r][k]) :
         /\ tries' = [tries EXCEPT ![r] = @ + 1]
         /\ IF resp.ok
               THEN /\ remote' = Stored(k, resp.obj)
                    /\ nextId' = [nextId EXCEPT ![k] = @ + 1]
                    /\ new' = [new EXCEPT ![r][k] = resp.obj]
                    /\ calls' = Append(calls, Call(r, "post", k, new[r][k], "ok", resp.obj,
                                                Stored(k, resp.obj)))
                    /\ Goto(r, << k, "loaded" >>)
                    /\ UNCHANGED << exit, raised >>
               ELSE /\ calls' = Append(calls,
                                  Call(r, "post", k, new[r][k], resp.message, None, remote))
                    /\ UNCHANGED << remote, nextId, new >>
                    /\ IF resp.message = message
                          THEN Goto(r, << k, "get" >>) /\ UNCHANGED << exit, raised >>
                          ELSE Raise(r, << k, "post" >>)
    /\ UNCHANGED << lag, remote0, timeline, clicked, Args, DateVars, Exports, assessment, idx, old, groups >>

\* listing = api.<kind>.get(), and the for loop up to its first delete call.
UpsertGet(r, k) ==
    /\ pc[r] = << k, "get" >>
    /\ \/ /\ calls' = Append(calls, Call(r, "get", k, None, "ok", remote[k], remote))
          /\ old' = [old EXCEPT ![r] = Matching(remote[k], new[r][k].name)]
          /\ groups' = IF k = "group"
                          THEN [groups EXCEPT ![r] = [rebound |-> TRUE, listing |-> remote[k]]]
                          ELSE groups
          /\ IF Matching(remote[k], new[r][k].name) = << >>
                THEN Goto(r, << k, "post" >>)
                ELSE Goto(r, << k, "delete" >>)
          /\ UNCHANGED << exit, raised >>
       \/ /\ calls' = Append(calls, Call(r, "get", k, None, OtherMessage, None, remote))
          /\ Raise(r, << k, "get" >>)
          /\ UNCHANGED << old, groups >>
    /\ UNCHANGED << Server, Args, DateVars, Exports, assessment, idx, new, tries >>

\* Mutant: after the delete the loop is left without a new create.
UpsertDelete_Done(r, k) ==
    /\ pc[r] = << k, "delete" >>
    /\ old[r] # << >>
    /\ calls' = Append(calls, Call(r, "delete", k, Head(old[r]).id, "ok", None,
                                   Deleted(k, Head(old[r]).id)))
    /\ remote' = Deleted(k, Head(old[r]).id)
    /\ old' = [old EXCEPT ![r] = Tail(@)]
    /\ new' = IF k \in UpsertKinds THEN [new EXCEPT ![r][k] = Head(old[r])] ELSE new
    /\ IF Tail(old[r]) = << >>
          THEN Goto(r, << k, IF k \in UpsertKinds THEN "loaded" ELSE "post" >>)
          ELSE Goto(r, << k, "delete" >>)
    /\ UNCHANGED << nextId, lag, remote0, timeline, clicked, Args, DateVars, Exports, assessment, idx, groups, tries, exit, raised >>

\* Mutant: the delete removes whatever carries the name now, not the listed id.
UpsertDelete_Name(r, k) ==
    /\ pc[r] = << k, "delete" >>
    /\ old[r] # << >>
    /\ LET left == [remote EXCEPT ![k] = SelectSeq(@, LAMBDA x : x.name # Head(old[r]).name)]
       IN  /\ calls' = Append(calls, Call(r, "delete", k, Head(old[r]).id, "ok", None, left))
           /\ remote' = left
    /\ old' = [old EXCEPT ![r] = Tail(@)]
    /\ IF Tail(old[r]) = << >>
          THEN Goto(r, << k, "post" >>)
          ELSE Goto(r, << k, "delete" >>)
    /\ UNCHANGED << nextId, lag, remote0, timeline, clicked, Args, DateVars, Exports, assessment, idx, new, groups, tries, exit, raised >>

\* api.<kind>.delete(old.id) for the next listed resource of that name, and
\* the for loop up to its next delete call or, at its end, back to the create.
UpsertDelete(r, k) ==
    /\ pc[r] = << k, "delete" >>
    /\ old[r] # << >>
    /\ \/ /\ calls' = Append(calls, Call(r, "delete", k, Head(old[r]).id, "ok", None,
                                         Deleted(k, Head(old[r]).id)))
          /\ remote' = Deleted(k, Head(old[r]).id)
          /\ old' = [old EXCEPT ![r] = Tail(@)]
          /\ IF Tail(old[r]) = << >>
                THEN Goto(r, << k, "post" >>)
                ELSE Goto(r, << k, "delete" >>)
          /\ UNCHANGED << exit, raised >>
       \/ /\ calls' = Append(calls, Call(r, "delete", k, Head(old[r]).id, OtherMessage,
                                         None, remote))
          /\ Raise(r, << k, "delete" >>)
          /\ UNCHANGED << remote, old >>
    /\ UNCHANGED << nextId, lag, remote0, timeline, clicked, Args, DateVars, Exports, assessment, idx, new, groups, tries >>

\* ------------------------------------------------------------------ gophish-import

\* An exception no handler of main catches: the interpreter prints the
\* traceback and the process ends with status 1.
Uncaught(r, origin) == SysExit(r, 1, origin)

Locals == << idx, new, old, groups, tries >>

\* main: logging.basicConfig(level=log_level.upper()), ValueError -> sys.exit(1)
ImportLogging(r) ==
    /\ pc[r] = << "import", "logging" >>
    /\ \/ Goto(r, << "import", "connect" >>) /\ UNCHANGED << exit, raised >>
       \/ SysExit(r, 1, << "main", "log_level" >>)
    /\ UNCHANGED << Server, Args, DateVars, Exports, assessment, Locals, calls >>

\* main: connect_api(API_KEY, SERVER), Exception -> sys.exit(1)
ImportConnect(r) ==
    /\ pc[r] = << "import", "connect" >>
    /\ \/ Goto(r, << "import", "load_file" >>) /\ UNCHANGED << exit, raised >>
       \/ SysExit(r, 1, << "main", "connect" >>)
    /\ UNCHANGED << Server, Args, DateVars, Exports, assessment, Locals, calls >>

\* Mutant: a missing or unreadable file ends the process with status 0.
ImportLoadFile_Zero(r) ==
    /\ pc[r] = << "import", "load_file" >>
    /\ \/ /\ assessment' = [assessment EXCEPT ![r] = file[r]]
          /\ Goto(r, << "page", "for" >>)
          /\ idx' = [idx EXCEPT ![r] = 1]
          /\ UNCHANGED << exit, raised >>
       \/ /\ \E e \in {"FileNotFoundError", "PermissionError"} : SysExit(r, 0, << "main", e >>)
          /\ UNCHANGED << assessment, idx >>
       \/ /\ Uncaught(r, << "main", "JSONDecodeError" >>)
          /\ UNCHANGED << assessment, idx >>
    /\ UNCHANGED << Server, Args, DateVars, Exports, new, old, groups, tries, calls >>

\* main: open(ASSESSMENT_FILE), json.load; FileNotFoundError and
\* PermissionError -> sys.exit(1); a json.JSONDecodeError is not caught.
ImportLoadFile(r) ==
    /\ pc[r] = << "import", "load_file" >>
    /\ \/ /\ assessment' = [assessment EXCEPT ![r] = file[r]]
          /\ Goto(r, << "page", "for" >>)
          /\ idx' = [idx EXCEPT ![r] = 1]
          /\ UNCHANGED << exit, raised >>
       \/ /\ \E e \in {"FileNotFoundError", "PermissionError"} : SysExit(r, 1, << "main", e >>)
          /\ UNCHANGED << assessment, idx >>
       \/ /\ Uncaught(r, << "main", "JSONDecodeError" >>)
          /\ UNCHANGED << assessment, idx >>
    /\ UNCHANGED << Server, Args, DateVars, Exports, new, old, groups, tries, calls >>

\* Mutant: after the pages the campaigns are built, the groups are not loaded.
PagesFor_SkipGroups(r) ==
    /\ pc[r] = << "page", "for" >>
    /\ IF idx[r] <= Len(assessment[r].pages)
          THEN /\ new' = [new EXCEPT ![r]["page"] = BuildPage(assessment[r].pages[idx[r]])]
               /\ tries' = [tries EXCEPT ![r] = 0]
               /\ Goto(r, << "page", "post" >>)
               /\ UNCHANGED << idx, groups >>
          ELSE /\ groups' = [groups EXCEPT ![r] = OwnGroups]
               /\ idx' = [idx EXCEPT ![r] = 1]
               /\ Goto(r, << "campaign", "for" >>)
               /\ UNCHANGED << new, tries >>
    /\ UNCHANGED << Server, Args, DateVars, Exports, assessment, old, exit, raised, calls >>

\* load_landings: `for page in pages`, up to the while loop; after the last
\* page `return pages`, and load_groups up to its for loop.
PagesFor(r) ==
    /\ pc[r] = << "page", "for" >>
    /\ IF idx[r] <= Len(assessment[r].pages)
          THEN /\ new' = [new EXCEPT ![r]["page"] = BuildPage(assessment[r].pages[idx[r]])]
               /\ tries' = [tries EXCEPT ![r] = 0]
               /\ Goto(r, << "page", "post" >>)
               /\ UNCHANGED << idx, groups >>
          ELSE /\ groups' = [groups EXCEPT ![r] = OwnGroups]
               /\ idx' = [idx EXCEPT ![r] = 1]
               /\ Goto(r, << "group", "for" >>)
               /\ UNCHANGED << new, tries >>
    /\ UNCHANGED << Server, Args, DateVars, Exports, assessment, old, exit, raised, calls >>

PagesPost(r) == UpsertPost(r, "page", "Page name already in use")
PagesGet(r) == UpsertGet(r, "page")
PagesDelete(r) == UpsertDelete(r, "page")

\* load_landings after the while loop: page["id"] = new_page.id
PagesLoaded(r) ==
    /\ pc[r] = << "page", "loaded" >>
    /\ assessment' = [assessment EXCEPT ![r].pages[idx[r]] = WithId(@, new[r]["page"].id)]
    /\ idx' = [idx EXCEPT ![r] = @ + 1]
    /\ Goto(r, << "page", "for" >>)
    /\ UNCHANGED << Server, Args, DateVars, Exports, new, old, groups, tries, exit, raised, calls >>

\* load_groups: `for group in groups` walks the document's list, up to the
\* while loop; after the last group `return groups` (the document's list with
\* the ids set, or the listing the name was bound to), main stores the
\* returned list as assessment["groups"], and build_campaigns up to its for
\* loop.
GroupsFor(r) ==
    /\ pc[r] = << "group", "for" >>
    /\ IF idx[r] <= Len(assessment[r].groups)
          THEN /\ new' = [new EXCEPT ![r]["group"] = BuildGroup(assessment[r].groups[idx[r]])]
               /\ tries' = [tries EXCEPT ![r] = 0]
               /\ Goto(r, << "group", "post" >>)
               /\ UNCHANGED << idx, assessment >>
          ELSE /\ assessment' = [assessment EXCEPT ![r].groups =
                                        IF groups[r].rebound THEN groups[r].listing ELSE @]
               /\ idx' = [idx EXCEPT ![r] = 1]
               /\ Goto(r, << "campaign", "for" >>)
               /\ UNCHANGED << new, tries >>
    /\ UNCHANGED << Server, Args, DateVars, Exports, old, groups, exit, raised, calls >>

GroupsPost(r) == UpsertPost(r, "group", "Group name already in use")
GroupsGet(r) == UpsertGet(r, "group")
GroupsDelete(r) == UpsertDelete(r, "group")

\* load_groups after the while loop: group["id"] = new_group.id, on the
\* element of the list the for loop walks.
GroupsLoaded(r) ==
    /\ pc[r] = << "group", "loaded" >>
    /\ assessment' = [assessment EXCEPT ![r].groups[idx[r]] = WithId(@, new[r]["group"].id)]
    /\ idx' = [idx EXCEPT ![r] = @ + 1]
    /\ Goto(r, << "group", "for" >>)
    /\ UNCHANGED << Server, Args, DateVars, Exports, new, old, groups, tries, exit, raised, calls >>

\* build_campaigns: `for campaign in assessment["campaigns"]`, up to the
\* template's while loop; after the last campaign main shuts logging down and
\* returns: the process ends with status 0.
CampaignsFor(r) ==
    /\ pc[r] = << "campaign", "for" >>
    /\ IF idx[r] <= Len(assessment[r].campaigns)
          THEN /\ new' = [new EXCEPT ![r]["template"] =
                                 BuildTemplate(assessment[r].campaigns[idx[r]])]
               /\ tries' = [tries EXCEPT ![r] = 0]
               /\ Goto(r, << "template", "post" >>)
               /\ UNCHANGED << exit, raised >>
          ELSE /\ SysExit(r, 0, NoError)
               /\ UNCHANGED << new, tries >>
    /\ UNCHANGED << Server, Args, DateVars, Exports, assessment, idx, old, groups, calls >>

TemplatesPost(r) == UpsertPost(r, "template", "Template name already in use")
TemplatesGet(r) == UpsertGet(r, "template")
TemplatesDelete(r) == UpsertDelete(r, "template")

\* build_campaigns between the two while loops: the SMTP object.
SmtpBuild(r) ==
    /\ pc[r] = << "template", "loaded" >>
    /\ new' = [new EXCEPT ![r]["smtp"] = BuildSMTP(assessment[r].campaigns[idx[r]])]
    /\ tries' = [tries EXCEPT ![r] = 0]
    /\ Goto(r, << "smtp", "post" >>)
    /\ UNCHANGED << Server, Args, DateVars, Exports, assessment, idx, old, groups, exit, raised, calls >>

SmtpPost(r) == UpsertPost(r, "smtp", "SMTP name already in use")
SmtpGet(r) == UpsertGet(r, "smtp")
SmtpDelete(r) == UpsertDelete(r, "smtp")

\* Mutant: the campaigns of that name are not looked for.
CampaignsGet_NoDelete(r) ==
    /\ pc[r] = << "smtp", "loaded" >>
    /\ Goto(r, << "campaign", "post" >>)
    /\ UNCHANGED << Server, Args, DateVars, Exports, assessment, Locals, exit, raised, calls >>

\* old_campaigns = api.campaigns.get(), and the for loop up to its first
\* delete call.
CampaignsGet(r) ==
    /\ pc[r] = << "smtp", "loaded" >>
    /\ LET name == assessment[r].campaigns[idx[r]].name
       IN  \/ /\ calls' = Append(calls, Call(r, "get", "campaign", None, "ok",
                                             remote["campaign"], remote))
              /\ old' = [old EXCEPT ![r] = Matching(remote["campaign"], name)]
              /\ IF Matching(remote["campaign"], name) = << >>
                    THEN Goto(r, << "campaign", "post" >>)
                    ELSE Goto(r, << "campaign", "delete" >>)
              /\ UNCHANGED << exit, raised >>
           \/ /\ calls' = Append(calls, Call(r, "get", "campaign", None, OtherMessage,
                                             None, remote))
              /\ Raise(r, << "campaign", "get" >>)
              /\ UNCHANGED old
    /\ UNCHANGED << Server, Args, DateVars, Exports, assessment, idx, new, groups, tries >>

\* Mutant: only the first listed campaign of that name is deleted.
CampaignsDelete_First(r) ==
    /\ pc[r] = << "campaign", "delete" >>
    /\ old[r] # << >>
    /\ calls' = Append(calls, Call(r, "delete", "campaign", Head(old[r]).id, "ok", None,
                                   Deleted("campaign", Head(old[r]).id)))
    /\ remote' = Deleted("campaign", Head(old[r]).id)
    /\ old' = [old EXCEPT ![r] = << >>]
    /\ Goto(r, << "campaign", "post" >>)
    /\ UNCHANGED << nextId, lag, remote0, timeline, clicked, Args, DateVars, Exports, assessment, idx, new, groups, tries,
                    exit, raised >>

\* Mutant: the campaigns of that name are logged and kept.
CampaignsDelete_Keep(r) ==
    /\ pc[r] = << "campaign", "delete" >>
    /\ old[r] # << >>
    /\ old' = [old EXCEPT ![r] = << >>]
    /\ Goto(r, << "campaign", "post" >>)
    /\ UNCHANGED << Server, Args, DateVars, Exports, assessment, idx, new, groups, tries, exit, raised, calls >>

\* api.campaigns.delete(old_campaign.id) for the next listed campaign of
\* that name.
CampaignsDelete(r) == UpsertDelete(r, "campaign")

\* Mutant: a failed create removes the campaign's template and SMTP profile.
CampaignsPost_Cleanup(r) ==
    /\ pc[r] = << "campaign", "post" >>
    /\ LET campaign == BuildCampaign(assessment[r].campaigns[idx[r]],
                                     new[r]["template"], new[r]["smtp"])
       IN  \E resp \in PostResponses("campaign", campaign) :
             IF resp.ok
                THEN /\ remote' = Stored("campaign", resp.obj)
                     /\ nextId' = [nextId EXCEPT !["campaign"] = @ + 1]
                     /\ calls' = Append(calls, Call(r, "post", "campaign", campaign, "ok",
                                                 resp.obj, Stored("campaign", resp.obj)))
                     /\ Goto(r, << "campaign", "loaded" >>)
                     /\ UNCHANGED << exit, raised >>
                ELSE /\ calls' = Append(calls,
                                   Call(r, "post", "campaign", campaign, resp.message,
                                        None, remote))
                     /\ Raise(r, << "campaign", "post" >>)
                     /\ remote' = [remote EXCEPT
                                     !["template"] = SelectSeq(@, LAMBDA x :
                                                         x.id # new[r]["template"].id),
                                     !["smtp"] = SelectSeq(@, LAMBDA x :
                                                     x.id # new[r]["smtp"].id)]
                     /\ UNCHANGED nextId
    /\ UNCHANGED << lag, remote0, timeline, clicked, Args, DateVars, Exports, assessment, Locals >>

\* Mutant: a failed create is answered by listing and deleting again, and a
\* new create.
CampaignsPost_Retry(r) ==
    /\ pc[r] = << "campaign", "post" >>
    /\ LET campaign == BuildCampaign(assessment[r].campaigns[idx[r]],
                                     new[r]["template"], new[r]["smtp"])
       IN  \E resp \in PostResponses("campaign", campaign) :
             IF resp.ok
                THEN /\ remote' = Stored("campaign", resp.obj)
                     /\ nextId' = [nextId EXCEPT !["campaign"] = @ + 1]
                     /\ calls' = Append(calls, Call(r, "post", "campaign", campaign, "ok",
                                                 resp.obj, Stored("campaign", resp.obj)))
                     /\ Goto(r, << "campaign", "loaded" >>)
                ELSE /\ calls' = Append(calls,
                                   Call(r, "post", "campaign", campaign, resp.message,
                                        None, remote))
                     /\ Goto(r, << "smtp", "loaded" >>)
                     /\ UNCHANGED << remote, nextId >>
    /\ UNCHANGED << lag, remote0, timeline, clicked, Args, DateVars, Exports, assessment, Locals, exit, raised >>

\* try: api.campaigns.post(Campaign(...)) except Exception: raise
CampaignsPost(r) ==
    /\ pc[r] = << "campaign", "post" >>
    /\ LET campaign == BuildCampaign(assessment[r].campaigns[idx[r]],
                                     new[r]["template"], new[r]["smtp"])
       IN  \E resp \in PostResponses("campaign", campaign) :
             IF resp.ok
                THEN /\ remote' = Stored("campaign", resp.obj)
                     /\ nextId' = [nextId EXCEPT !["campaign"] = @ + 1]
                     /\ calls' = Append(calls, Call(r, "post", "campaign", campaign, "ok",
                                                 resp.obj, Stored("campaign", resp.obj)))
                     /\ Goto(r, << "campaign", "loaded" >>)
                     /\ UNCHANGED << exit, raised >>
                ELSE /\ calls' = Append(calls,
                                   Call(r, "post", "campaign", campaign, resp.message,
                                        None, remote))
                     /\ Raise(r, << "campaign", "post" >>)
                     /\ UNCHANGED << remote, nextId >>
    /\ UNCHANGED << lag, remote0, timeline, clicked, Args, DateVars, Exports, assessment, Locals >>

\* build_campaigns at the end of the loop body: the next campaign.
CampaignsLoaded(r) ==
    /\ pc[r] = << "campaign", "loaded" >>
    /\ idx' = [idx EXCEPT ![r] = @ + 1]
    /\ Goto(r, << "campaign", "for" >>)
    /\ UNCHANGED << Server, Args, DateVars, Exports, assessment, new, old, groups, tries, exit, raised, calls >>

Import(r) ==
    \/ ImportLogging(r) \/ ImportConnect(r) \/ ImportLoadFile(r)
    \/ PagesFor(r) \/ PagesPost(r) \/ PagesGet(r) \/ PagesDelete(r) \/ PagesLoaded(r)
    \/ GroupsFor(r) \/ GroupsPost(r) \/ GroupsGet(r) \/ GroupsDelete(r) \/ GroupsLoaded(r)
    \/ CampaignsFor(r)
    \/ TemplatesPost(r) \/ TemplatesGet(r) \/ TemplatesDelete(r)
    \/ SmtpBuild(r) \/ SmtpPost(r) \/ SmtpGet(r) \/ SmtpDelete(r)
    \/ CampaignsGet(r) \/ CampaignsDelete(r) \/ CampaignsPost(r) \/ CampaignsLoaded(r)

\* ------------------------------------------------------------------ export: the pure functions

\* The e-mail addresses that occur on the server.
Emails ==
    << << "john", "@", "A" >>, << "john", "@", "B" >>, << "jane", "@", "B" >>,
       << "John", "@", "B" >> >>

\* hashlib.sha256(email.encode("utf-8")).hexdigest(): a digest is taken to
\* identify the bytes it was computed from (no collision), and is no text
\* of the address.
sha256_Lower(email) ==
    LET lower == IF email[1] = "John" THEN [email EXCEPT ![1] = "john"] ELSE email
    IN  << "sha256", CHOOSE i \in DOMAIN Emails : Emails[i] = lower >>

sha256(email) == << "sha256", CHOOSE i \in DOMAIN Emails : Emails[i] = email >>

\* A timestamp of the server, "...:<sec>.<frac>Z".
Time(sec, frac) == << "T", sec, frac >>

\* time.split(".")[0]: the text before the fraction.
SplitDot(time) == << "T", time[2] >>

\* datetime.strptime(text, "%Y-%m-%dT%H:%M:%S"): a datetime, to the second.
strptime(text) == << "datetime", text[2] >>

\* datetime.strftime(dt, "%Y-%m-%dT%H:%M:%S")
strftime(dt) == << "T", dt[2] >>

\* str.split(sep): the parts of s between the separators.
split(s, sep) ==
    LET parts[i \in 0..Len(s)] ==
            IF i = 0 THEN << << >> >>
            ELSE IF s[i] = sep THEN Append(parts[i - 1], << >>)
            ELSE [parts[i - 1] EXCEPT ![Len(parts[i - 1])] = Append(@, s[i])]
    IN  parts[Len(s)]

\* httpagentparser.detect(userAgent)
detect(userAgent) ==
    CASE userAgent = "Mozilla/5.0 (Windows NT 10.0)"
           -> [platform |-> [name |-> "Windows", version |-> "10"]]
      [] userAgent = "Mozilla/5.0 (Macintosh; Intel Mac OS X 10_15)"
           -> [platform |-> [name |-> "Mac OS", version |-> "X 10.15"]]
      [] OTHER -> [platform |-> [name |-> None, version |-> None]]

get_application(rawEvent) ==
    [external_ip |-> rawEvent.details.browser.address,
     name |-> detect(rawEvent.details.browser["user-agent"]).platform.name,
     version |-> detect(rawEvent.details.browser["user-agent"]).platform.version]

\* Mutant: every event that carries a browser is taken for a click.
get_click_data_Details(rawEvents) ==
    LET clicks[i \in 0..Len(rawEvents)] ==
            IF i = 0 THEN << >>
            ELSE IF "details" \in DOMAIN rawEvents[i]
                    THEN Append(clicks[i - 1],
                                [user |-> sha256(rawEvents[i].email),
                                 source_ip |-> rawEvents[i].details.browser.address,
                                 time |-> rawEvents[i].time,
                                 application |-> get_application(rawEvents[i])])
                    ELSE clicks[i - 1]
    IN  clicks[Len(rawEvents)]

\* get_click_data, from the timeline on: the for loop over rawEvents.
get_click_data(rawEvents) ==
    LET clicks[i \in 0..Len(rawEvents)] ==
            IF i = 0 THEN << >>
            ELSE IF rawEvents[i].message = "Clicked Link"
                    THEN Append(clicks[i - 1],
                                [user |-> sha256(rawEvents[i].email),
                                 source_ip |-> rawEvents[i].details.browser.address,
                                 time |-> rawEvents[i].time,
                                 application |-> get_application(rawEvents[i])])
                    ELSE clicks[i - 1]
    IN  clicks[Len(rawEvents)]

\* Mutant: a failed send gives no entry.
get_email_status_Sent(rawEvents) ==
    LET status[i \in 0..Len(rawEvents)] ==
            IF i = 0 THEN << >>
            ELSE IF rawEvents[i].message = "Email Sent"
                    THEN Append(status[i - 1],
                                [user |-> sha256(rawEvents[i].email),
                                 time |-> rawEvents[i].time,
                                 status |-> "SUCCESS"])
            ELSE status[i - 1]
    IN  status[Len(rawEvents)]

\* get_email_status, from the timeline on: the for loop over rawEvents.
get_email_status(rawEvents) ==
    LET status[i \in 0..Len(rawEvents)] ==
            IF i = 0 THEN << >>
            ELSE IF rawEvents[i].message = "Email Sent"
                    THEN Append(status[i - 1],
                                [user |-> sha256(rawEvents[i].email),
                                 time |-> rawEvents[i].time,
                                 status |-> "SUCCESS"])
            ELSE IF rawEvents[i].message = "Error Sending Email"
                    THEN Append(status[i - 1],
                                [user |-> sha256(rawEvents[i].email),
                                 time |-> strptime(SplitDot(rawEvents[i].time)),
                                 status |-> "Failed"])
            ELSE status[i - 1]
    IN  status[Len(rawEvents)]

\* find_unique_target_clicks_count
find_unique_target_clicks_count(clicks) ==
    Cardinality({ clicks[i].user : i \in DOMAIN clicks })

GCD(a, b) == CHOOSE g \in 1..(a + b + 1) :
    /\ a % g = 0 /\ b % g = 0
    /\ \A h \in 1..(a + b + 1) : (a % h = 0 /\ b % h = 0) => h <= g

\* A float, as the fraction it is: num / float(den).
Float(num, den) == [num |-> num \div GCD(num, den), den |-> den \div GCD(num, den)]

\* Mutant: the division is the integer division.
percent_clicks_Floor(unique_clicks, total_clicks) ==
    IF total_clicks > 0 THEN Float(unique_clicks \div total_clicks, 1) ELSE Float(0, 1)

\* write_campaign_summary: percent_clicks
percent_clicks(unique_clicks, total_clicks) ==
    IF total_clicks > 0 THEN Float(unique_clicks, total_clicks) ELSE Float(0, 1)

\* "%f" % value: six digits after the point, as millionths.
FormatF(value) == (2 * value.num * 1000000 + value.den) \div (2 * value.den)

\* re.compile(r"^.*_(?P<level>level-[1-6])$").fullmatch(name)["level"], or
\* None when the name does not match.
level_of(name) ==
    IF /\ Len(name) >= 8
       /\ SubSeq(name, Len(name) - 7, Len(name) - 1) = << "_", "l", "e", "v", "e", "l", "-" >>
       /\ name[Len(name)] \in {"1", "2", "3", "4", "5", "6"}
       THEN SubSeq(name, Len(name) - 6, Len(name))
       ELSE << >>

\* ------------------------------------------------------------------ gophish-export

\* assessment_exists: any(campaign.name.startswith(assessment_id))
assessment_exists(listing, id) ==
    \E j \in 1..Len(listing) : StartsWith(listing[j].name, id)

\* main: logging.basicConfig(level=log_level.upper()), ValueError -> sys.exit(1)
ExportLogging(r) ==
    /\ pc[r] = << "export", "logging" >>
    /\ \/ Goto(r, << "export", "connect" >>) /\ UNCHANGED << exit, raised >>
       \/ SysExit(r, 1, << "main", "log_level" >>)
    /\ UNCHANGED << Server, Args, DateVars, Exports, assessment, Locals, calls >>

\* main: connect_api(API_KEY, SERVER), Exception -> sys.exit(1)
ExportConnect(r) ==
    /\ pc[r] = << "export", "connect" >>
    /\ \/ Goto(r, << "export", "exists" >>) /\ UNCHANGED << exit, raised >>
       \/ SysExit(r, 1, << "main", "connect" >>)
    /\ UNCHANGED << Server, Args, DateVars, Exports, assessment, Locals, calls >>

\* main: `if assessment_exists(api, ASSESSMENT_ID)`, else sys.exit(1); an
\* Error of api.campaigns.get() is not caught.
ExportExists(r) ==
    /\ pc[r] = << "export", "exists" >>
    /\ \/ /\ calls' = Append(calls, Call(r, "get", "campaign", None, "ok",
                                             remote["campaign"], remote))
          /\ IF assessment_exists(remote["campaign"], assessment_id[r])
                THEN Goto(r, << "targets", "list" >>) /\ UNCHANGED << exit, raised >>
                ELSE SysExit(r, 1, << "main", "not_found" >>)
       \/ /\ calls' = Append(calls, Call(r, "get", "campaign", None, OtherMessage,
                                             None, remote))
          /\ Uncaught(r, << "export", "exists" >>)
    /\ UNCHANGED << Server, Args, DateVars, Exports, assessment, Locals >>

ImportLocals == << assessment, new, old, groups, tries >>

\* Mutant: the statistics are read through the call that ends the campaign.
Fetched_Complete(r, op, k, arg, out) ==
    calls' = Append(calls, Call(r, IF op = "summary" THEN "complete" ELSE op, k, arg,
                                "ok", out, remote))

\* An API call of the export that returned.
Fetched(r, op, k, arg, out) ==
    calls' = Append(calls, Call(r, op, k, arg, "ok", out, remote))

\* An API call of the export that raised: no export function catches it, nor
\* does main.
Failed(r, op, k, arg, origin) ==
    /\ calls' = Append(calls, Call(r, op, k, arg, OtherMessage, None, remote))
    /\ Uncaught(r, origin)
    /\ UNCHANGED << idx, export, files >>

\* api.<kind>.get(id): the resources of that id (one, or none).
ById(k, id) == SelectSeq(remote[k], LAMBDA x : x.id = id)

\* Mutant: the groups are not filtered by the assessment identifier.
get_group_ids_All(rawGroup, id) ==
    [j \in 1..Len(rawGroup) |-> rawGroup[j].id]

\* get_group_ids, from the listing on.
get_group_ids(rawGroup, id) ==
    LET found == SelectSeq(rawGroup, LAMBDA group : StartsWith(group.name, id))
    IN  [j \in 1..Len(found) |-> found[j].id]

\* Mutant: the campaigns are not filtered by the assessment identifier.
get_campaign_ids_All(rawCampaigns, id) ==
    [j \in 1..Len(rawCampaigns) |-> rawCampaigns[j].id]

\* get_campaign_ids, from the listing on.
get_campaign_ids(rawCampaigns, id) ==
    LET found == SelectSeq(rawCampaigns, LAMBDA campaign : StartsWith(campaign.name, id))
    IN  [j \in 1..Len(found) |-> found[j].id]

\* Mutant: the target is exported with its address.
Target_Email(raw_target, id) ==
    [id |-> sha256(raw_target.email),
     email |-> raw_target.email,
     customer_defined_labels |->
         IF "position" \in DOMAIN raw_target
            THEN [a \in {id} |-> << raw_target.position >>]
            ELSE << >>]

\* export_targets: the target dict of one raw target.
Target(raw_target, id) ==
    [id |-> sha256(raw_target.email),
     customer_defined_labels |->
         IF "position" \in DOMAIN raw_target
            THEN [a \in {id} |-> << raw_target.position >>]
            ELSE << >>]

\* export_targets: groupIDs = get_group_ids(api, assessment_id); with no
\* group the empty list is returned and export_campaigns begins.
TargetsList(r) ==
    /\ pc[r] = << "targets", "list" >>
    /\ \/ /\ Fetched(r, "get", "group", None, remote["group"])
          /\ LET groupIDs == get_group_ids(remote["group"], assessment_id[r])
             IN  /\ export' = [export EXCEPT ![r].ids = groupIDs, ![r].targets = << >>]
                 /\ idx' = [idx EXCEPT ![r] = 1]
                 /\ IF groupIDs = << >>
                       THEN Goto(r, << "campaigns", "list" >>)
                       ELSE Goto(r, << "targets", "get" >>)
          /\ UNCHANGED << files, exit, raised >>
       \/ Failed(r, "get", "group", None, << "targets", "list" >>)
    /\ UNCHANGED << Server, Args, DateVars, ImportLocals >>

\* export_targets: raw_targets = api.groups.get(group_id).as_dict()["targets"]
\* and the for loop over the raw targets.
TargetsGet(r) ==
    /\ pc[r] = << "targets", "get" >>
    /\ LET group_id == export[r].ids[idx[r]]
       IN  \/ /\ ById("group", group_id) # << >>
              /\ Fetched(r, "get", "group", group_id, ById("group", group_id))
              /\ LET raw_targets == Head(ById("group", group_id)).targets
                 IN  export' = [export EXCEPT ![r].targets =
                                   @ \o [t \in 1..Len(raw_targets) |->
                                           Target(raw_targets[t], assessment_id[r])]]
              /\ idx' = [idx EXCEPT ![r] = @ + 1]
              /\ IF idx[r] < Len(export[r].ids)
                    THEN Goto(r, << "targets", "get" >>)
                    ELSE Goto(r, << "campaigns", "list" >>)
              /\ UNCHANGED << files, exit, raised >>
           \/ Failed(r, "get", "group", group_id, << "targets", "get" >>)
    /\ UNCHANGED << Server, Args, DateVars, ImportLocals >>

\* json.dump(obj, fp) raises TypeError on a datetime.
Serializable(assessment_dict) ==
    \A c \in DOMAIN assessment_dict.campaigns :
        \A e \in DOMAIN assessment_dict.campaigns[c].status :
            assessment_dict.campaigns[c].status[e].time[1] # "datetime"

\* main: assessment_dict["campaigns"] = export_campaigns(...), then
\* json.dump(assessment_dict) into data_<ASSESSMENT_ID>.json, then
\* export_user_reports begins.  The file is opened before the dump.
DataWritten(r, campaigns) ==
    LET assessment_dict == [targets |-> export[r].targets, campaigns |-> campaigns]
    IN  IF Serializable(assessment_dict)
           THEN /\ files' = [files EXCEPT ![r].data = << assessment_dict >>]
                /\ Goto(r, << "reports", "list" >>)
                /\ UNCHANGED << exit, raised >>
           ELSE /\ files' = [files EXCEPT ![r].data = << [partial |-> TRUE] >>]
                /\ Uncaught(r, << "main", "TypeError" >>)

\* export_campaigns: campaignIDs = get_campaign_ids(api, assessment_id)
CampaignsList(r) ==
    /\ pc[r] = << "campaigns", "list" >>
    /\ \/ /\ Fetched(r, "get", "campaign", None, remote["campaign"])
          /\ LET campaignIDs == get_campaign_ids(remote["campaign"], assessment_id[r])
             IN  /\ export' = [export EXCEPT ![r].ids = campaignIDs, ![r].campaigns = << >>]
                 /\ idx' = [idx EXCEPT ![r] = 1]
                 /\ IF campaignIDs = << >>
                       THEN DataWritten(r, << >>)
                       ELSE /\ Goto(r, << "campaigns", "data" >>)
                            /\ UNCHANGED << files, exit, raised >>
       \/ Failed(r, "get", "campaign", None, << "campaigns", "list" >>)
    /\ UNCHANGED << Server, Args, DateVars, ImportLocals >>

\* get_campaign_data: rawCampaign = api.campaigns.get(campaign_id).as_dict()
\* and the fields of `campaign` taken from it.
DataCampaign(r, caller) ==
    /\ pc[r] = << caller, "data" >>
    /\ LET campaign_id == export[r].ids[idx[r]]
       IN  \/ /\ ById("campaign", campaign_id) # << >>
              /\ Fetched(r, "get", "campaign", campaign_id, ById("campaign", campaign_id))
              /\ LET rawCampaign == Head(ById("campaign", campaign_id))
                 IN  export' = [export EXCEPT
                                  ![r].rawCampaign = rawCampaign,
                                  ![r].campaign = [id |-> rawCampaign.name,
                                                   start_time |-> rawCampaign.launch_date,
                                                   end_time |-> rawCampaign.completed_date,
                                                   url |-> rawCampaign.url,
                                                   subject |-> rawCampaign.template.subject]]
              /\ Goto(r, << caller, "template" >>)
              /\ UNCHANGED << idx, files, exit, raised >>
           \/ Failed(r, "get", "campaign", campaign_id, << caller, "data" >>)
    /\ UNCHANGED << Server, Args, DateVars, ImportLocals >>

\* get_campaign_data: api.templates.get(rawCampaign["template"]["id"])
\* .as_dict()["name"].split("-")[2]; a name of fewer than three parts raises
\* IndexError.
DataTemplate(r, caller) ==
    /\ pc[r] = << caller, "template" >>
    /\ LET id == export[r].rawCampaign.template.id
           found == ById("template", id)
       IN  \/ /\ found # << >>
              /\ Fetched(r, "get", "template", id, found)
              /\ IF Len(split(Head(found).name, "-")) >= 3
                    THEN /\ export' = [export EXCEPT ![r].campaign =
                                          [f \in DOMAIN @ \cup {"template"} |->
                                             IF f = "template"
                                                THEN split(Head(found).name, "-")[3]
                                                ELSE @[f]]]
                         /\ Goto(r, << caller, "clicks" >>)
                         /\ UNCHANGED << exit, raised >>
                    ELSE /\ Uncaught(r, << caller, "IndexError" >>)
                         /\ UNCHANGED export
              /\ UNCHANGED << idx, files >>
           \/ Failed(r, "get", "template", id, << caller, "template" >>)
    /\ UNCHANGED << Server, Args, DateVars, ImportLocals >>

\* get_campaign_data: campaign["clicks"] = get_click_data(api, campaign_id)
DataClicks(r, caller) ==
    /\ pc[r] = << caller, "clicks" >>
    /\ LET campaign_id == export[r].ids[idx[r]]
       IN  \/ /\ ById("campaign", campaign_id) # << >>
              /\ Fetched(r, "get", "campaign", campaign_id, ById("campaign", campaign_id))
              /\ export' = [export EXCEPT ![r].campaign =
                               [f \in DOMAIN @ \cup {"clicks"} |->
                                  IF f = "clicks" THEN get_click_data(timeline[campaign_id])
                                  ELSE @[f]]]
              /\ Goto(r, << caller, "status" >>)
              /\ UNCHANGED << idx, files, exit, raised >>
           \/ Failed(r, "get", "campaign", campaign_id, << caller, "clicks" >>)
    /\ UNCHANGED << Server, Args, DateVars, ImportLocals >>

\* str(campaign_id)
str(campaign_id) == << "str", campaign_id >>

\* Mutant: the first click of the timeline is reported.
first_report_Head(clicks) ==
    IF clicks = << >> THEN << "No clicks reported" >>
    ELSE strftime(strptime(SplitDot(clicks[1].time)))

\* export_user_reports: the for loop over campaign["clicks"] and the
\* first_report entry of user_report_doc.
first_report(clicks) ==
    LET first[i \in 0..Len(clicks)] ==
            IF i = 0 THEN << >>
            ELSE LET click_time == strptime(SplitDot(clicks[i].time))
                 IN  IF first[i - 1] = << >> \/ click_time[2] < first[i - 1][2]
                        THEN click_time
                        ELSE first[i - 1]
    IN  IF first[Len(clicks)] # << >>
           THEN strftime(first[Len(clicks)])
           ELSE << "No clicks reported" >>

\* get_campaign_data: campaign["status"] = get_email_status(api, campaign_id)
\* and the return.  export_campaigns appends the campaign to its list and,
\* after the last one, returns to main; export_user_reports finds the
\* earliest click and builds user_report_doc.
DataStatus(r, caller) ==
    /\ pc[r] = << caller, "status" >>
    /\ LET campaign_id == export[r].ids[idx[r]]
       IN  \/ /\ ById("campaign", campaign_id) # << >>
              /\ Fetched(r, "get", "campaign", campaign_id, ById("campaign", campaign_id))
              /\ LET campaign == [f \in DOMAIN export[r].campaign \cup {"status"} |->
                                    IF f = "status"
                                       THEN get_email_status(timeline[campaign_id])
                                       ELSE export[r].campaign[f]]
                 IN  IF caller = "campaigns"
                        THEN /\ export' = [export EXCEPT
                                             ![r].campaign = campaign,
                                             ![r].campaigns = Append(@, campaign)]
                             /\ idx' = [idx EXCEPT ![r] = @ + 1]
                             /\ IF idx[r] < Len(export[r].ids)
                                   THEN /\ Goto(r, << "campaigns", "data" >>)
                                        /\ UNCHANGED << files, exit, raised >>
                                   ELSE DataWritten(r, Append(export[r].campaigns, campaign))
                        ELSE /\ export' = [export EXCEPT
                                             ![r].campaign = campaign,
                                             ![r].user_report_doc =
                                                 [customer |-> "",
                                                  assessment |-> assessment_id[r],
                                                  campaign |-> str(campaign_id),
                                                  first_report |-> first_report(campaign.clicks)]]
                             /\ Goto(r, << "reports", "summary" >>)
                             /\ UNCHANGED << idx, files, exit, raised >>
           \/ Failed(r, "get", "campaign", campaign_id, << caller, "status" >>)
    /\ UNCHANGED << Server, Args, DateVars, ImportLocals >>

CampaignsData(r) == DataCampaign(r, "campaigns")
CampaignsTemplate(r) == DataTemplate(r, "campaigns")
CampaignsClicks(r) == DataClicks(r, "campaigns")
CampaignsStatus(r) == DataStatus(r, "campaigns")

\* export_user_reports: campaign_ids = get_campaign_ids(api, assessment_id);
\* with no campaign write_campaign_summary begins.
ReportsList(r) ==
    /\ pc[r] = << "reports", "list" >>
    /\ \/ /\ Fetched(r, "get", "campaign", None, remote["campaign"])
          /\ LET campaign_ids == get_campaign_ids(remote["campaign"], assessment_id[r])
             IN  /\ export' = [export EXCEPT ![r].ids = campaign_ids]
                 /\ idx' = [idx EXCEPT ![r] = 1]
                 /\ IF campaign_ids = << >>
                       THEN Goto(r, << "summary", "list" >>)
                       ELSE Goto(r, << "reports", "data" >>)
          /\ UNCHANGED << files, exit, raised >>
       \/ Failed(r, "get", "campaign", None, << "reports", "list" >>)
    /\ UNCHANGED << Server, Args, DateVars, ImportLocals >>

ReportsData(r) == DataCampaign(r, "reports")
ReportsTemplate(r) == DataTemplate(r, "reports")
ReportsClicks(r) == DataClicks(r, "reports")
ReportsStatus(r) == DataStatus(r, "reports")

\* export_user_reports: total_num_reports = api.campaigns.summary(...)
\* .stats.clicked, the dump of user_report_doc into
\* <ASSESSMENT_ID>_<campaign_id>_user_report_doc.json, and the next campaign.
ReportsSummary(r) ==
    /\ pc[r] = << "reports", "summary" >>
    /\ LET campaign_id == export[r].ids[idx[r]]
       IN  \/ /\ ById("campaign", campaign_id) # << >>
              /\ Fetched(r, "summary", "campaign", campaign_id, clicked[campaign_id])
              /\ LET doc == [f \in DOMAIN export[r].user_report_doc \cup {"total_num_reports"}
                               |-> IF f = "total_num_reports" THEN clicked[campaign_id]
                                   ELSE export[r].user_report_doc[f]]
                 IN  /\ export' = [export EXCEPT ![r].user_report_doc = doc]
                     /\ files' = [files EXCEPT ![r].reports =
                                     Append(@, [name |-> << assessment_id[r], campaign_id >>,
                                                doc |-> doc])]
              /\ idx' = [idx EXCEPT ![r] = @ + 1]
              /\ IF idx[r] < Len(export[r].ids)
                    THEN Goto(r, << "reports", "data" >>)
                    ELSE Goto(r, << "summary", "list" >>)
              /\ UNCHANGED << exit, raised >>
           \/ Failed(r, "summary", "campaign", campaign_id, << "reports", "summary" >>)
    /\ UNCHANGED << Server, Args, DateVars, ImportLocals >>

\* The keys of campaign_data.json: "level-1" to "level-6".
Levels ==
    { << "l", "e", "v", "e", "l", "-", n >> : n \in {"1", "2", "3", "4", "5", "6"} }

\* campaign_data.json, the template of the summary: an entry per level.
campaign_data_template ==
    [level \in Levels |->
        [subject |-> << >>, sender |-> << >>, start_date |-> << >>, end_date |-> << >>,
         redirect |-> << >>, clicks |-> 0, unique_clicks |-> 0,
         percent_clicks |-> Float(0, 1)]]

\* write_campaign_summary after the for loop: json.dump(campaign_data) into
\* <ASSESSMENT_ID>_campaign_data.json, the return to main and the end of the
\* process.
SummaryWritten(r, campaign_data) ==
    /\ files' = [files EXCEPT ![r].summary = << campaign_data >>]
    /\ SysExit(r, 0, NoError)

\* write_campaign_summary: campaign_ids = get_campaign_ids(...), the load of
\* the template (a missing file is not caught) and the first line of the text
\* report.
SummaryList(r) ==
    /\ pc[r] = << "summary", "list" >>
    /\ \/ /\ Fetched(r, "get", "campaign", None, remote["campaign"])
          /\ LET campaign_ids == get_campaign_ids(remote["campaign"], assessment_id[r])
             IN  \/ /\ export' = [export EXCEPT ![r].ids = campaign_ids,
                                                ![r].campaign_data = campaign_data_template]
                    /\ idx' = [idx EXCEPT ![r] = 1]
                    /\ IF campaign_ids = << >>
                          THEN /\ files' = [files EXCEPT
                                              ![r].text = << [header |-> assessment_id[r]] >>,
                                              ![r].summary = << campaign_data_template >>]
                               /\ SysExit(r, 0, NoError)
                          ELSE /\ files' = [files EXCEPT
                                              ![r].text = << [header |-> assessment_id[r]] >>]
                               /\ Goto(r, << "summary", "campaign" >>)
                               /\ UNCHANGED << exit, raised >>
                 \/ /\ export' = [export EXCEPT ![r].ids = campaign_ids]
                    /\ Uncaught(r, << "summary", "FileNotFoundError" >>)
                    /\ UNCHANGED << idx, files >>
       \/ Failed(r, "get", "campaign", None, << "summary", "list" >>)
    /\ UNCHANGED << Server, Args, DateVars, ImportLocals >>

\* Mutant: a campaign whose name carries no level ends the loop.
SummaryCampaign_Break(r) ==
    /\ pc[r] = << "summary", "campaign" >>
    /\ LET campaign_id == export[r].ids[idx[r]]
       IN  \/ /\ ById("campaign", campaign_id) # << >>
              /\ Fetched(r, "get", "campaign", campaign_id, ById("campaign", campaign_id))
              /\ LET campaign == Head(ById("campaign", campaign_id))
                 IN  IF level_of(campaign.name) # << >>
                        THEN /\ export' = [export EXCEPT
                                             ![r].rawCampaign = campaign,
                                             ![r].level = level_of(campaign.name)]
                             /\ Goto(r, << "summary", "clicks" >>)
                             /\ UNCHANGED << idx, files, exit, raised >>
                        ELSE /\ idx' = [idx EXCEPT ![r] = @ + 1]
                             /\ SummaryWritten(r, export[r].campaign_data)
                             /\ UNCHANGED export
           \/ Failed(r, "get", "campaign", campaign_id, << "summary", "campaign" >>)
    /\ UNCHANGED << Server, Args, DateVars, ImportLocals >>

\* write_campaign_summary: campaign = api.campaigns.get(campaign_id) and the
\* match of its name; without a level the campaign is skipped (`continue`).
SummaryCampaign(r) ==
    /\ pc[r] = << "summary", "campaign" >>
    /\ LET campaign_id == export[r].ids[idx[r]]
       IN  \/ /\ ById("campaign", campaign_id) # << >>
              /\ Fetched(r, "get", "campaign", campaign_id, ById("campaign", campaign_id))
              /\ LET campaign == Head(ById("campaign", campaign_id))
                 IN  IF level_of(campaign.name) # << >>
                        THEN /\ export' = [export EXCEPT
                                             ![r].rawCampaign = campaign,
                                             ![r].level = level_of(campaign.name)]
                             /\ Goto(r, << "summary", "clicks" >>)
                             /\ UNCHANGED << idx, files, exit, raised >>
                        ELSE /\ idx' = [idx EXCEPT ![r] = @ + 1]
                             /\ IF idx[r] < Len(export[r].ids)
                                   THEN /\ Goto(r, << "summary", "campaign" >>)
                                        /\ UNCHANGED << files, exit, raised >>
                                   ELSE SummaryWritten(r, export[r].campaign_data)
                             /\ UNCHANGED export
           \/ Failed(r, "get", "campaign", campaign_id, << "summary", "campaign" >>)
    /\ UNCHANGED << Server, Args, DateVars, ImportLocals >>

\* write_campaign_summary: clicks = get_click_data(api, campaign_id)
SummaryClicks(r) ==
    /\ pc[r] = << "summary", "clicks" >>
    /\ LET campaign_id == export[r].ids[idx[r]]
       IN  \/ /\ ById("campaign", campaign_id) # << >>
              /\ Fetched(r, "get", "campaign", campaign_id, ById("campaign", campaign_id))
              /\ export' = [export EXCEPT ![r].clicks = get_click_data(timeline[campaign_id])]
              /\ Goto(r, << "summary", "stats" >>)
              /\ UNCHANGED << idx, files, exit, raised >>
           \/ Failed(r, "get", "campaign", campaign_id, << "summary", "clicks" >>)
    /\ UNCHANGED << Server, Args, DateVars, ImportLocals >>

\* Mutant: the first campaign of a level keeps the entry of the level.
SummaryStats_First(r) ==
    /\ pc[r] = << "summary", "stats" >>
    /\ LET campaign_id == export[r].ids[idx[r]]
           campaign == export[r].rawCampaign
           level == export[r].level
       IN  \/ /\ ById("campaign", campaign_id) # << >>
              /\ Fetched(r, "summary", "campaign", campaign_id, clicked[campaign_id])
              /\ LET total_clicks == clicked[campaign_id]
                     unique_clicks == find_unique_target_clicks_count(export[r].clicks)
                     entry == [subject |-> campaign.template.subject,
                               sender |-> campaign.smtp.from_address,
                               start_date |-> campaign.launch_date,
                               end_date |-> campaign.completed_date,
                               redirect |-> campaign.url,
                               clicks |-> total_clicks,
                               unique_clicks |-> unique_clicks,
                               percent_clicks |-> percent_clicks(unique_clicks, total_clicks)]
                     campaign_data ==
                         IF export[r].campaign_data[level] = campaign_data_template[level]
                            THEN [export[r].campaign_data EXCEPT ![level] = entry]
                            ELSE export[r].campaign_data
                     block == [campaign |-> campaign.name,
                               subject |-> entry.subject,
                               sender |-> entry.sender,
                               start_date |-> entry.start_date,
                               end_date |-> entry.end_date,
                               redirect |-> entry.redirect,
                               clicks |-> entry.clicks,
                               unique_clicks |-> entry.unique_clicks,
                               percent_clicks |-> FormatF(entry.percent_clicks)]
                 IN  /\ export' = [export EXCEPT ![r].campaign_data = campaign_data]
                     /\ idx' = [idx EXCEPT ![r] = @ + 1]
                     /\ IF idx[r] < Len(export[r].ids)
                           THEN /\ files' = [files EXCEPT ![r].text = Append(@, block)]
                                /\ Goto(r, << "summary", "campaign" >>)
                                /\ UNCHANGED << exit, raised >>
                           ELSE /\ files' = [files EXCEPT
                                               ![r].text = Append(@, block),
                                               ![r].summary = << campaign_data >>]
                                /\ SysExit(r, 0, NoError)
           \/ Failed(r, "summary", "campaign", campaign_id, << "summary", "stats" >>)
    /\ UNCHANGED << Server, Args, DateVars, ImportLocals >>

\* write_campaign_summary: total_clicks = api.campaigns.summary(...)
\* .stats.clicked, the entry of the campaign's level, its block of the text
\* report, and the next campaign.
SummaryStats(r) ==
    /\ pc[r] = << "summary", "stats" >>
    /\ LET campaign_id == export[r].ids[idx[r]]
           campaign == export[r].rawCampaign
           level == export[r].level
       IN  \/ /\ ById("campaign", campaign_id) # << >>
              /\ Fetched(r, "summary", "campaign", campaign_id, clicked[campaign_id])
              /\ LET total_clicks == clicked[campaign_id]
                     unique_clicks == find_unique_target_clicks_count(export[r].clicks)
                     entry == [subject |-> campaign.template.subject,
                               sender |-> campaign.smtp.from_address,
                               start_date |-> campaign.launch_date,
                               end_date |-> campaign.completed_date,
                               redirect |-> campaign.url,
                               clicks |-> total_clicks,
                               unique_clicks |-> unique_clicks,
                               percent_clicks |-> percent_clicks(unique_clicks, total_clicks)]
                     campaign_data == [export[r].campaign_data EXCEPT ![level] = entry]
                     block == [campaign |-> campaign.name,
                               subject |-> entry.subject,
                               sender |-> entry.sender,
                               start_date |-> entry.start_date,
                               end_date |-> entry.end_date,
                               redirect |-> entry.redirect,
                               clicks |-> entry.clicks,
                               unique_clicks |-> entry.unique_clicks,
                               percent_clicks |-> FormatF(entry.percent_clicks)]
                 IN  /\ export' = [export EXCEPT ![r].campaign_data = campaign_data]
                     /\ idx' = [idx EXCEPT ![r] = @ + 1]
                     /\ IF idx[r] < Len(export[r].ids)
                           THEN /\ files' = [files EXCEPT ![r].text = Append(@, block)]
                                /\ Goto(r, << "summary", "campaign" >>)
                                /\ UNCHANGED << exit, raised >>
                           ELSE /\ files' = [files EXCEPT
                                               ![r].text = Append(@, block),
                                               ![r].summary = << campaign_data >>]
                                /\ SysExit(r, 0, NoError)
           \/ Failed(r, "summary", "campaign", campaign_id, << "summary", "stats" >>)
    /\ UNCHANGED << Server, Args, DateVars, ImportLocals >>

\* main: export_targets, export_campaigns, the data file, export_user_reports
\* and write_campaign_summary.
ExportAssessment(r) ==
    \/ TargetsList(r) \/ TargetsGet(r)
    \/ CampaignsList(r) \/ CampaignsData(r) \/ CampaignsTemplate(r)
    \/ CampaignsClicks(r) \/ CampaignsStatus(r)
    \/ ReportsList(r) \/ ReportsData(r) \/ ReportsTemplate(r)
    \/ ReportsClicks(r) \/ ReportsStatus(r) \/ ReportsSummary(r)
    \/ SummaryList(r) \/ SummaryCampaign(r) \/ SummaryClicks(r) \/ SummaryStats(r)

Export(r) ==
    \/ ExportLogging(r) \/ ExportConnect(r) \/ ExportExists(r) \/ ExportAssessment(r)

\* ------------------------------------------------------------------ set_date

\* An attribute that is not set (None).
NoDate == << >>

\* Campaign dates, "<date>T<hour>:00:00+HH:MM": the local hour of one day and
\* the UTC offset in hours.
DateText(hour, offset) == << "T", hour, "+", offset, ":", 0 >>

CampaignDates == { DateText(hour, offset) : hour \in {10, 11, 12}, offset \in {0, 2} }

\* "".join(text.rsplit(":", 1)): the text without the colon of the offset.
rsplit_join(text) == SubSeq(text, 1, Len(text) - 2) \o << text[Len(text)] >>

\* Mutant: the offset is dropped, the local time compared.
strptime_z_Local(text) == text[2]

\* datetime.strptime(text, "%Y-%m-%dT%H:%M:%S%z"): an aware datetime, which
\* compares by its instant (hours UTC).
strptime_z(text) == text[2] - text[4]

\* set_date(type_, assessment, campaign_date): the assessment after the call.
set_date(type_, an_assessment, campaign_date) ==
    IF an_assessment[type_] # NoDate
       THEN LET assessment_time == strptime_z(rsplit_join(an_assessment[type_]))
                campaign_time == strptime_z(rsplit_join(campaign_date))
            IN  IF \/ type_ = "start_date" /\ assessment_time > campaign_time
                   \/ type_ = "end_date" /\ assessment_time < campaign_time
                   THEN [an_assessment EXCEPT ![type_] = campaign_date]
                   ELSE an_assessment
       ELSE [an_assessment EXCEPT ![type_] = campaign_date]

\* One call of set_date on the assessment object.
SetDate(type_, campaign_date) ==
    /\ Len(passed) < MaxCalls
    /\ dates' = set_date(type_, dates, campaign_date)
    /\ passed' = Append(passed, << type_, campaign_date >>)
    /\ UNCHANGED << Server, Args, Exports, assessment, Locals, pc, exit, raised, calls >>

\* ------------------------------------------------------------------ documents

\* Two definitions per kind, "A" and "B", that differ in every field.
PageDoc(name, v) ==
    [name |-> name,
     capture_credentials |-> (v = "B"),
     capture_passwords |-> (v = "B"),
     html |-> << "html", v >>,
     redirect_url |-> IF v = "B" THEN "http://redirect" ELSE ""]

TargetDoc(who, v) ==
    [first_name |-> << "first", who >>,
     last_name |-> << "last", who >>,
     email |-> << who, "@", v >>,
     position |-> IF v = "B" THEN "IT" ELSE ""]

GroupDoc(name, v) ==
    [name |-> name,
     targets |-> IF v = "B" THEN << TargetDoc("john", v), TargetDoc("jane", v) >>
                 ELSE << TargetDoc("john", v) >>]

TemplateDoc(name, v) ==
    [name |-> name, subject |-> << "subject", v >>, html |-> << "html", v >>,
     text |-> << "text", v >>]

SmtpDoc(name, v) ==
    IF v = "B"
       THEN [name |-> name, host |-> "smtp.b", from_address |-> "b@bad.domain",
             username |-> "user", password |-> "secret"]
       ELSE [name |-> name, host |-> "smtp.a", from_address |-> "a@bad.domain"]

CampaignDoc(name, sub, v) ==
    [name |-> name,
     template |-> TemplateDoc(sub, v),
     smtp |-> SmtpDoc(sub, v),
     group_name |-> NameA,
     page_name |-> NameA,
     url |-> << "url", v >>,
     launch_date |-> << "launch", v >>,
     complete_date |-> << "complete", v >>]

\* The assessment with one group of two targets, one page and one campaign.
OneOfEach ==
    [pages |-> << PageDoc(NameA, "B") >>,
     groups |-> << GroupDoc(NameA, "B") >>,
     campaigns |-> << CampaignDoc(CampA, NameA, "B") >>]

\* The assessment documents the runs import.
Docs ==
    { OneOfEach,
      \* every resource listed twice, with one definition
      [pages |-> << PageDoc(NameA, "B"), PageDoc(NameA, "B") >>,
       groups |-> << GroupDoc(NameA, "B"), GroupDoc(NameA, "B") >>,
       campaigns |-> << CampaignDoc(CampA, NameA, "B"), CampaignDoc(CampA, NameA, "B") >>],
      \* every resource listed twice, with two definitions
      [pages |-> << PageDoc(NameA, "A"), PageDoc(NameA, "B") >>,
       groups |-> << GroupDoc(NameA, "A"), GroupDoc(NameA, "B") >>,
       campaigns |-> << CampaignDoc(CampA, NameA, "A"), CampaignDoc(CampA, NameA, "B") >>],
      \* two resources of each kind
      [pages |-> << PageDoc(NameA, "B"), PageDoc(NameB, "B") >>,
       groups |-> << GroupDoc(NameA, "B"), GroupDoc(NameB, "B") >>,
       campaigns |-> << CampaignDoc(CampA, NameA, "B"), CampaignDoc(CampB, NameB, "B") >> ] }

\* ------------------------------------------------------------------ the server before a run

\* A collection: the objects, with the identifiers 1, 2, ... in listing order.
Listed(objs) == [j \in 1..Len(objs) |-> WithId(objs[j], j)]

Copies(obj, n) == [j \in 1..n |-> obj]

\* What a collection may hold before a run: nothing, a resource of the
\* document's name with definition "A" (a) or "B" (b), a resource of another
\* assessment (x), both, or several resources of the document's name.
Before(a, b, x) ==
    << << >>, << a >>, << b >>, << x >>, << x, a >>, Copies(a, MaxDup) >>

BeforePages ==
    Before(BuildPage(PageDoc(NameA, "A")), BuildPage(PageDoc(NameA, "B")),
           BuildPage(PageDoc(NameX, "A")))
BeforeGroups ==
    Before(BuildGroup(GroupDoc(NameA, "A")), BuildGroup(GroupDoc(NameA, "B")),
           BuildGroup(GroupDoc(NameX, "A")))
BeforeTemplates ==
    Before(BuildTemplate(CampaignDoc(CampA, NameA, "A")),
           BuildTemplate(CampaignDoc(CampA, NameA, "B")),
           BuildTemplate(CampaignDoc(CampX, NameX, "A")))
BeforeSmtp ==
    Before(BuildSMTP(CampaignDoc(CampA, NameA, "A")),
           BuildSMTP(CampaignDoc(CampA, NameA, "B")),
           BuildSMTP(CampaignDoc(CampX, NameX, "A")))

CampaignObj(name, v) ==
    BuildCampaign(CampaignDoc(name, NameA, v),
                  WithId(BuildTemplate(CampaignDoc(name, NameA, v)), 1),
                  WithId(BuildSMTP(CampaignDoc(name, NameA, v)), 1))

BeforeCampaigns ==
    Before(CampaignObj(CampA, "A"), CampaignObj(CampA, "B"), CampaignObj(CampX, "A"))

\* The servers a run may meet.  The pages and the groups have one shape, the
\* templates and the SMTP profiles another, the campaigns a third.
Servers ==
    { [page |-> Listed(BeforePages[s1]),
       group |-> Listed(BeforeGroups[s1]),
       template |-> Listed(BeforeTemplates[s2]),
       smtp |-> Listed(BeforeSmtp[s2]),
       campaign |-> Listed(BeforeCampaigns[s3])] :
      s1 \in DOMAIN BeforePages, s2 \in DOMAIN BeforeTemplates,
      s3 \in DOMAIN BeforeCampaigns }
    \cup
    \* a server that holds a campaign with the name of the document's page
    { [page |-> Listed(<< BeforePages[2][1] >>),
       group |-> << >>,
       template |-> Listed(<< BeforeTemplates[4][1] >>),
       smtp |-> << >>,
       campaign |-> Listed(<< CampaignObj(NameA, "A"), CampaignObj(CampA, "A") >>)] }

\* ------------------------------------------------------------------ the server before an export

\* A template name of three parts, as export_campaigns expects it.
TemplateName == R1 \o << "-", "T", "1", "-", "I", "D" >>

CampNoLevel == R1 \o << "-", "C", "3" >>
CampLevel7 == R1 \o << "-", "C", "3", "_", "l", "e", "v", "e", "l", "-", "7" >>
CampA2 == R1 \o << "-", "C", "4" >> \o Level1

\* A campaign of the server, with the template of identifier 1 embedded.
ExportCampaign(name, sub, v) ==
    BuildCampaign(CampaignDoc(name, sub, v),
                  WithId(BuildTemplate(CampaignDoc(name, sub, v)), 1),
                  WithId(BuildSMTP(CampaignDoc(name, sub, v)), 1))

ExportGroup(name, whos, v) ==
    BuildGroup([name |-> name, targets |-> [t \in 1..Len(whos) |-> TargetDoc(whos[t], v)]])

\* The lists of campaigns an export may meet.
ExportCampaigns ==
    << << ExportCampaign(CampA, TemplateName, "A") >>,
       << ExportCampaign(CampA, TemplateName, "A"), ExportCampaign(CampB, TemplateName, "B") >>,
       << ExportCampaign(CampX, TemplateName, "A"), ExportCampaign(CampA, TemplateName, "B") >>,
       << ExportCampaign(CampNoLevel, TemplateName, "A"),
          ExportCampaign(CampA, TemplateName, "B") >>,
       << ExportCampaign(CampA, TemplateName, "A"), ExportCampaign(CampA2, TemplateName, "B") >>,
       << ExportCampaign(CampLevel7, TemplateName, "A"),
          ExportCampaign(CampB, TemplateName, "B") >>,
       << ExportCampaign(CampX, TemplateName, "A") >> >>

\* The lists of groups an export may meet.
ExportGroups ==
    << << ExportGroup(NameA, << "john", "John" >>, "B") >>,
       << ExportGroup(NameX, << "john" >>, "A"), ExportGroup(NameA, << "john", "John" >>, "B") >>,
       << ExportGroup(NameA, << "john", "John" >>, "B"), ExportGroup(NameB, << "jane" >>, "B") >> >>

\* An event of a timeline; the events of a browser carry its details.
Event(message, who, time) ==
    [message |-> message, email |-> << who, "@", "B" >>, time |-> time]

Browser(message, who, time, address, agent) ==
    [message |-> message, email |-> << who, "@", "B" >>, time |-> time,
     details |-> [browser |-> [a \in {"address", "user-agent"} |->
                                  IF a = "address" THEN address ELSE agent]]]

Windows == "Mozilla/5.0 (Windows NT 10.0)"
Macintosh == "Mozilla/5.0 (Macintosh; Intel Mac OS X 10_15)"

\* The timelines a campaign may have.
Timelines ==
    << << >>,
       << [message |-> "Campaign Created", email |-> << >>, time |-> Time(0, 1)],
          Event("Email Sent", "john", Time(1, 1)),
          Event("Email Opened", "john", Time(2, 5)),
          Browser("Clicked Link", "john", Time(3, 5), "10.0.0.1", Windows),
          Browser("Submitted Data", "John", Time(4, 5), "10.0.0.2", Macintosh) >>,
       << Event("Email Sent", "john", Time(1, 1)),
          Event("Email Sent", "John", Time(1, 2)),
          Browser("Clicked Link", "John", Time(5, 1), "10.0.0.2", Macintosh),
          Browser("Clicked Link", "john", Time(3, 7), "10.0.0.1", Windows),
          Browser("Clicked Link", "john", Time(4, 2), "10.0.0.1", "curl/7.68"),
          Browser("Submitted Data", "john", Time(6, 3), "10.0.0.1", Windows) >>,
       << Event("Email Sent", "john", Time(1, 1)),
          Event("Error Sending Email", "John", Time(2, 9)),
          Event("Email Reported", "john", Time(3, 3)) >>,
       << Browser("Clicked Link", "john", Time(3, 9), "10.0.0.1", Windows),
          Browser("Clicked Link", "John", Time(3, 1), "10.0.0.2", Macintosh),
          Event("Email Sent", "jane", Time(4, 1)) >>,
       << Event("Email Sent", "jane", Time(1, 1)),
          Event("Email Opened", "jane", Time(2, 2)) >> >>

\* The values stats.clicked of a campaign summary may have.
ClickedCounts == << 0, 1, 2, 10 >>

\* The servers an export may meet: every list of campaigns with every list
\* of groups, the timelines and the counts assigned in rotation; and two
\* servers whose template is gone, or has a name of two parts.
ExportServers ==
    { [remote |-> [page |-> << >>,
                   group |-> Listed(ExportGroups[g]),
                   template |-> Listed(<< BuildTemplate(CampaignDoc(CampA, TemplateName, "A")) >>),
                   smtp |-> Listed(<< BuildSMTP(CampaignDoc(CampA, TemplateName, "A")) >>),
                   campaign |-> Listed(ExportCampaigns[c])],
       timeline |-> [j \in 1..Len(ExportCampaigns[c]) |->
                        Timelines[((t + j - 2) % Len(Timelines)) + 1]],
       clicked |-> [j \in 1..Len(ExportCampaigns[c]) |->
                        ClickedCounts[((n + j - 2) % Len(ClickedCounts)) + 1]]] :
      c \in DOMAIN ExportCampaigns, g \in DOMAIN ExportGroups,
      t \in DOMAIN Timelines, n \in DOMAIN ClickedCounts }
    \cup
    { [remote |-> [page |-> << >>,
                   group |-> Listed(ExportGroups[1]),
                   template |-> tpl,
                   smtp |-> << >>,
                   campaign |-> Listed(ExportCampaigns[1])],
       timeline |-> << Timelines[2] >>,
       clicked |-> << 1 >>] :
      tpl \in { << >>, Listed(<< BuildTemplate(CampaignDoc(CampA, NameA, "A")) >>) } }

\* ------------------------------------------------------------------ specification

EmptyDoc == [pages |-> << >>, groups |-> << >>, campaigns |-> << >>]

NoObject == [name |-> << >>]

InitServer(delayed) ==
    /\ remote \in Servers
    /\ remote0 = remote
    /\ nextId = [k \in Kinds |-> Len(remote[k]) + 1]
    /\ lag = delayed
    /\ timeline = << >>
    /\ clicked = << >>

InitExportServer ==
    /\ \E server \in ExportServers :
          /\ remote = server.remote
          /\ timeline = server.timeline
          /\ clicked = server.clicked
    /\ remote0 = remote
    /\ nextId = [k \in Kinds |-> Len(remote[k]) + 1]
    /\ lag = FALSE

InitLocals ==
    /\ idx = [r \in Runs |-> 1]
    /\ new = [r \in Runs |-> [k \in UpsertKinds |-> NoObject]]
    /\ old = [r \in Runs |-> << >>]
    /\ groups = [r \in Runs |-> OwnGroups]
    /\ tries = [r \in Runs |-> 0]
    /\ exit = [r \in Runs |-> << >>]
    /\ raised = [r \in Runs |-> NoError]
    /\ export = [r \in Runs |->
                   [ids |-> << >>, targets |-> << >>, campaigns |-> << >>,
                    rawCampaign |-> NoObject, campaign |-> NoObject,
                    user_report_doc |-> NoObject, level |-> << >>, clicks |-> << >>,
                    campaign_data |-> << >>]]
    /\ files = [r \in Runs |->
                  [data |-> << >>, reports |-> << >>, text |-> << >>, summary |-> << >>]]
    /\ calls = << >>
    /\ dates = [start_date |-> NoDate, end_date |-> NoDate]
    /\ passed = << >>

\* Run 1 is a gophish-import of one of the documents.
InitImport ==
    /\ cmd = [r \in Runs |-> IF r = 1 THEN "import" ELSE "none"]
    /\ pc = [r \in Runs |-> IF r = 1 THEN << "import", "logging" >> ELSE << "main", "idle" >>]
    /\ \E doc \in Docs : file = [r \in Runs |-> IF r = 1 THEN doc ELSE EmptyDoc]
    /\ assessment = [r \in Runs |-> EmptyDoc]
    /\ assessment_id = [r \in Runs |-> R1]

\* Run 1 is a gophish-export of an assessment identifier.
InitExport ==
    /\ cmd = [r \in Runs |-> IF r = 1 THEN "export" ELSE "none"]
    /\ pc = [r \in Runs |-> IF r = 1 THEN << "export", "logging" >> ELSE << "main", "idle" >>]
    /\ file = [r \in Runs |-> EmptyDoc]
    /\ assessment = [r \in Runs |-> EmptyDoc]
    /\ \E id \in {R1, R2, << "R", "3" >>} : assessment_id = [r \in Runs |-> id]

Init ==
    \/ InitServer(FALSE) /\ InitLocals /\ InitImport
    \/ InitExportServer /\ InitLocals /\ InitExport

Next == \E r \in Runs : Import(r) \/ Export(r)

Spec == Init /\ [][Next]_vars

\* The import against a server whose deletes have no visible effect.
InitLag == InitServer(TRUE) /\ InitLocals /\ InitImport

NextImport == \E r \in Runs : Import(r)

SpecLag == InitLag /\ [][NextImport]_vars

\* Two gophish-import processes at once against one server.  Both documents
\* define the group NameA: run 1 with definition "A", in a document that has
\* a page and a campaign too, run 2 with definition "B".
DocOne == [OneOfEach EXCEPT !.pages = << PageDoc(NameA, "A") >>,
                            !.groups = << GroupDoc(NameA, "A") >>,
                            !.campaigns = << CampaignDoc(CampA, NameA, "A") >>]

DocTwo == [EmptyDoc EXCEPT !.groups = << GroupDoc(NameA, "B") >>]

\* The servers the two runs may meet: nothing, or a group of that name.
TwoServers ==
    { [k \in Kinds |-> << >>],
      [k \in Kinds |-> IF k = "group" THEN Listed(<< BuildGroup(GroupDoc(NameA, "A")) >>)
                       ELSE << >>] }

InitTwo ==
    /\ remote \in TwoServers
    /\ remote0 = remote
    /\ nextId = [k \in Kinds |-> Len(remote[k]) + 1]
    /\ lag = FALSE
    /\ timeline = << >>
    /\ clicked = << >>
    /\ InitLocals
    /\ cmd = [r \in Runs |-> "import"]
    /\ pc = [r \in Runs |-> << "import", "logging" >>]
    /\ file = [r \in Runs |-> IF r = 1 THEN DocOne ELSE DocTwo]
    /\ assessment = [r \in Runs |-> EmptyDoc]
    /\ assessment_id = [r \in Runs |-> R1]

SpecTwo == InitTwo /\ [][NextImport]_vars

\* One import on a consistent server, the process never halted by its
\* scheduler: every call of the API returns or fails, and the code goes on.
\* The servers that hold the same shape in every collection.
LiveServers ==
    { [page |-> Listed(BeforePages[s]),
       group |-> Listed(BeforeGroups[s]),
       template |-> Listed(BeforeTemplates[s]),
       smtp |-> Listed(BeforeSmtp[s]),
       campaign |-> Listed(BeforeCampaigns[s])] : s \in DOMAIN BeforePages }

InitLive == InitServer(FALSE) /\ remote \in LiveServers /\ InitLocals /\ InitImport

SpecLive == InitLive /\ [][NextImport]_vars /\ WF_vars(NextImport)

\* set_date called again and again on an assessment whose dates are unset, no
\* command running.
InitDate ==
    /\ remote = [k \in Kinds |-> << >>]
    /\ remote0 = remote
    /\ nextId = [k \in Kinds |-> 1]
    /\ lag = FALSE
    /\ timeline = << >>
    /\ clicked = << >>
    /\ InitLocals
    /\ cmd = [r \in Runs |-> "none"]
    /\ pc = [r \in Runs |-> << "main", "idle" >>]
    /\ file = [r \in Runs |-> EmptyDoc]
    /\ assessment = [r \in Runs |-> EmptyDoc]
    /\ assessment_id = [r \in Runs |-> R1]

NextDate ==
    \E type_ \in {"start_date", "end_date"}, campaign_date \in CampaignDates :
        SetDate(type_, campaign_date)

SpecDate == InitDate /\ [][NextDate]_vars

\* ------------------------------------------------------------------ properties

Last(s) == s[Len(s)]

\* The resources of a listing with the given name, and the others.
SameName(listing, name) == SelectSeq(listing, LAMBDA x : x.name = name)
OtherNames(listing, name) == SelectSeq(listing, LAMBDA x : x.name # name)

\* The positions in the history of the calls of run r.
CallsOf(r) == { i \in DOMAIN calls : calls[i].run = r }

Max(S) == CHOOSE x \in S : \A y \in S : y <= x

\* The first call of the while loop run r is in: its tries[r]-th last create.
LoopStart(r) ==
    LET posts == { i \in CallsOf(r) : calls[i].op = "post" }
    IN  CHOOSE i \in posts : Cardinality({ j \in posts : j >= i }) = tries[r]

\* The listing run r got last for kind k.
LastListing(r, k) ==
    calls[Max({ i \in CallsOf(r) : /\ calls[i].op = "get"
                                    /\ calls[i].kind = k
                                    /\ calls[i].res = "ok" })].out

\* The entry of the document that the upsert of kind k run r is in is about.
Entry(r, k) ==
    CASE k = "page" -> file[r].pages[idx[r]]
      [] k = "group" -> file[r].groups[idx[r]]
      [] k = "template" -> file[r].campaigns[idx[r]].template
      [] k = "smtp" -> file[r].campaigns[idx[r]].smtp

Unset(value) == IF value = "" THEN None ELSE value

\* A remote resource x carries exactly the definition of the document's entry.
PageIs(x, page) ==
    /\ x.name = page.name
    /\ x.capture_credentials = page.capture_credentials
    /\ x.capture_passwords = page.capture_passwords
    /\ x.html = page.html
    /\ x.redirect_url = Unset(page.redirect_url)

GroupIs(x, group) ==
    /\ x.name = group.name
    /\ Len(x.targets) = Len(group.targets)
    /\ \A t \in 1..Len(group.targets) :
         /\ x.targets[t].first_name = group.targets[t].first_name
         /\ x.targets[t].last_name = group.targets[t].last_name
         /\ x.targets[t].email = group.targets[t].email
         /\ x.targets[t].position = Unset(group.targets[t].position)

TemplateIs(x, template) ==
    /\ x.name = template.name
    /\ x.subject = template.subject
    /\ x.html = template.html
    /\ x.text = template.text

SmtpIs(x, smtp) ==
    /\ x.name = smtp.name
    /\ x.host = smtp.host
    /\ x.from_address = smtp.from_address
    /\ x.interface_type = "SMTP"
    /\ x.ignore_cert_errors
    /\ x.username = IF "username" \in DOMAIN smtp THEN smtp.username ELSE None
    /\ x.password = IF "password" \in DOMAIN smtp THEN smtp.password ELSE None

Is(k, x, entry) ==
    CASE k = "page" -> PageIs(x, entry)
      [] k = "group" -> GroupIs(x, entry)
      [] k = "template" -> TemplateIs(x, entry)
      [] k = "smtp" -> SmtpIs(x, entry)

\* Run r is back from the upsert of kind k.
Returned(r, k) == pc[r] = << k, "loaded" >>

\* The resources named like the upsert's when the upsert of kind k that run r
\* is back from began: none when its first create succeeded, else those of
\* the listing it got.
Prior(r, k) ==
    IF tries[r] = 1 THEN << >> ELSE SameName(LastListing(r, k), Entry(r, k).name)

\* C1: whenever an upsert of a page, group, template or SMTP profile returns
\* successfully from a server that held no or one resource of that name, the
\* server holds exactly one resource of that kind and name, it is the one
\* just created, and every field of it is the document's.
C1_UpsertReplaces ==
    \A r \in Runs, k \in UpsertKinds :
        (Returned(r, k) /\ Len(Prior(r, k)) <= 1) =>
            LET now == SameName(remote[k], Entry(r, k).name)
            IN  /\ Len(now) = 1
                /\ Is(k, now[1], Entry(r, k))
                /\ now[1] = new[r][k]

\* C1 witness: a page upsert has returned where the server held one page of
\* that name with another definition.
C1_Witness ==
    /\ Returned(1, "page")
    /\ Len(Prior(1, "page")) = 1
    /\ ~ PageIs(Prior(1, "page")[1], Entry(1, "page"))

\* Entries idx-1 and idx of the document have one name and one definition.
Repeated(r, k) ==
    /\ k \in {"page", "group"}
    /\ idx[r] > 1
    /\ IF k = "page" THEN file[r].pages[idx[r] - 1] = file[r].pages[idx[r]]
                     ELSE file[r].groups[idx[r] - 1] = file[r].groups[idx[r]]

\* C2: when the upsert of one name and definition has run twice in
\* succession, the server holds exactly one resource of that kind and name
\* and the same (kind, name, definition) triples as after the first run.
C2_UpsertIdempotent ==
    \A r \in Runs, k \in UpsertKinds :
        (Returned(r, k) /\ Repeated(r, k)) =>
            /\ Len(SameName(remote[k], Entry(r, k).name)) = 1
            /\ Triples(remote) = calls[LoopStart(r) - 1].after

\* C2 witness: the second of two successive upserts of one group has
\* returned, after replacing the group the first one created.
C2_Witness ==
    /\ Returned(1, "group")
    /\ Repeated(1, "group")
    /\ tries[1] = 2
    /\ calls[LoopStart(1) - 1].op = "post"
    /\ calls[LoopStart(1) - 1].res = "ok"

\* A create of an upsert that failed with another message than the kind's
\* "name already in use".
FailedCreate(c) ==
    /\ c.op = "post"
    /\ c.kind \in UpsertKinds
    /\ c.res # "ok"
    /\ c.res # ConflictMessage(c.kind)

\* C3: after a create that failed with another error than the name conflict
\* the run issues no call at all (no list, no delete, no create, nothing for
\* a later resource), and the import has ended with status 1 on that error.
C3_OtherErrorAborts ==
    \A i \in DOMAIN calls :
        FailedCreate(calls[i]) =>
            /\ \A j \in DOMAIN calls : j > i => calls[j].run # calls[i].run
            /\ pc[calls[i].run] = << "main", "exited" >>
            /\ exit[calls[i].run] = << 1 >>
            /\ raised[calls[i].run] = << calls[i].kind, "post" >>

\* C3 witness: the create of the first of two pages failed with another
\* error, and the run has ended.
C3_Witness ==
    /\ calls # << >>
    /\ FailedCreate(Last(calls))
    /\ Last(calls).kind = "page"
    /\ Len(file[1].pages) = 2
    /\ idx[1] = 1
    /\ exit[1] = << 1 >>

\* Run r is back at the create of an upsert of kind k after a name conflict.
Retrying(r, k) == pc[r] = << k, "post" >> /\ tries[r] >= 1

LastListingAt(r, k) ==
    Max({ i \in CallsOf(r) : calls[i].op = "get" /\ calls[i].kind = k /\ calls[i].res = "ok" })

\* The calls run r issued after position i of the history.
CallsAfter(r, i) ==
    SelectSeq(SubSeq(calls, i + 1, Len(calls)), LAMBDA c : c.run = r)

\* The statement of C4 as claimed: between a name conflict and the next create
\* exactly one delete call is issued, for the first listed resource of that
\* name, however many resources of that name are listed.
C4_OneDeletePerConflict ==
    \A r \in Runs, k \in UpsertKinds :
        Retrying(r, k) =>
            LET g == LastListingAt(r, k)
                listed == SameName(calls[g].out, new[r][k].name)
                then == CallsAfter(r, g)
            IN  /\ Len(then) = 1
                /\ then[1].op = "delete"
                /\ then[1].arg = listed[1].id

\* C4 as amended: after a name conflict the upserter lists the resources of
\* that kind and deletes every listed resource whose name equals the new
\* resource's, one delete call each and in listing order (one call when the
\* name is listed once), then creates again.
C4_DeletesEveryMatch ==
    \A r \in Runs, k \in UpsertKinds :
        Retrying(r, k) =>
            LET g == LastListingAt(r, k)
                listed == SameName(calls[g].out, new[r][k].name)
                then == CallsAfter(r, g)
            IN  /\ calls[g - 1].op = "post"
                /\ calls[g - 1].res = ConflictMessage(k)
                /\ Len(listed) >= 1
                /\ Len(then) = Len(listed)
                /\ \A n \in 1..Len(then) :
                     /\ then[n].op = "delete"
                     /\ then[n].kind = k
                     /\ then[n].res = "ok"
                     /\ then[n].arg = listed[n].id

\* C4 witness: a conflict whose listing held several pages of that name.
C4_Witness ==
    /\ Retrying(1, "page")
    /\ Len(SameName(calls[LastListingAt(1, "page")].out, new[1]["page"].name)) > 1

\* C5: on a server that keeps the name in use, a name conflict is always
\* followed by the listing and never raised, a loop that met a conflict is
\* never left through a successful create, and a create error that does end
\* the run is another error than the conflict.
C5_ConflictNeverLeavesLoop ==
    \A r \in Runs :
        /\ \A k \in UpsertKinds : Returned(r, k) => tries[r] = 1
        /\ CallsOf(r) # {} =>
             LET last == calls[Max(CallsOf(r))]
             IN  /\ (last.op = "post" /\ last.kind \in UpsertKinds
                        /\ last.res = ConflictMessage(last.kind))
                       => pc[r] = << last.kind, "get" >>
                 /\ (exit[r] # << >> /\ last.op = "post" /\ last.kind \in UpsertKinds)
                       => last.res = OtherMessage

\* C5 witness: the page loop has issued as many creates as the model
\* follows, every one answered with the name conflict, and goes on.
C5_Witness ==
    /\ lag
    /\ tries[1] = MaxTries
    /\ pc[1] = << "page", "get" >>
    /\ \A i \in CallsOf(1) : calls[i].op = "post" => calls[i].res = ConflictMessage("page")

\* The campaign x is the document's campaign c with the run's template and
\* SMTP profile embedded.
CampaignIs(x, c, template, smtp) ==
    /\ x.name = c.name
    /\ x.groups = << c.group_name >>
    /\ x.page = c.page_name
    /\ x.url = c.url
    /\ x.launch_date = c.launch_date
    /\ x.completed_date = c.complete_date
    /\ x.template = template /\ TemplateIs(template, c.template)
    /\ x.smtp = smtp /\ SmtpIs(smtp, c.smtp)

\* C6: when build_campaigns has created a campaign, the server holds exactly
\* one campaign of that name, the one just created from the document, and
\* the campaigns of other names are the ones listed before the deletes.
C6_CampaignReplaced ==
    \A r \in Runs :
        Returned(r, "campaign") =>
            LET c == file[r].campaigns[idx[r]]
                now == SameName(remote["campaign"], c.name)
            IN  /\ Len(now) = 1
                /\ now[1] = calls[Max(CallsOf(r))].out
                /\ CampaignIs(now[1], c, new[r]["template"], new[r]["smtp"])
                /\ OtherNames(remote["campaign"], c.name)
                     = OtherNames(LastListing(r, "campaign"), c.name)

\* C6 witness: a campaign was created where several campaigns of its name
\* were listed.
C6_Witness ==
    /\ Returned(1, "campaign")
    /\ Len(SameName(LastListing(1, "campaign"), file[1].campaigns[idx[1]].name)) > 1

\* Run r had a successful create of kind k for the object obj before
\* position j of the history.
CreatedBefore(r, j, k, obj) ==
    \E i \in CallsOf(r) :
        /\ i < j
        /\ calls[i].op = "post" /\ calls[i].kind = k /\ calls[i].res = "ok"
        /\ calls[i].arg = obj

\* C7: when a campaign create is issued, every page and every group of the
\* document and the campaign's own template and SMTP profile have been
\* created successfully by that run, and no call of the run has failed with
\* another error than a name conflict.
C7_ResourcesBeforeCampaign ==
    \A j \in DOMAIN calls :
        (calls[j].op = "post" /\ calls[j].kind = "campaign") =>
            LET r == calls[j].run
            IN  /\ \A p \in DOMAIN file[r].pages :
                     CreatedBefore(r, j, "page", BuildPage(file[r].pages[p]))
                /\ \A g \in DOMAIN file[r].groups :
                     CreatedBefore(r, j, "group", BuildGroup(file[r].groups[g]))
                /\ CreatedBefore(r, j, "template", WithoutId(calls[j].arg.template))
                /\ CreatedBefore(r, j, "smtp", WithoutId(calls[j].arg.smtp))
                /\ \A i \in CallsOf(r) :
                     (i < j /\ calls[i].kind \in UpsertKinds) =>
                         calls[i].res \in {"ok", ConflictMessage(calls[i].kind)}
                /\ \A i \in CallsOf(r) :
                     (i < j /\ calls[i].kind = "campaign") => calls[i].res = "ok"

\* C7 witness: the create of the second campaign of a document of two pages
\* and two groups has been issued.
C7_Witness ==
    /\ calls # << >>
    /\ Last(calls).op = "post"
    /\ Last(calls).kind = "campaign"
    /\ idx[1] = 2
    /\ Len(file[1].pages) = 2
    /\ Len(file[1].groups) = 2

EmptyServer == [k \in Kinds |-> << >>]

\* The server after an import of OneOfEach into the empty server.
ImportedServer ==
    [page |-> Listed(<< BuildPage(PageDoc(NameA, "B")) >>),
     group |-> Listed(<< BuildGroup(GroupDoc(NameA, "B")) >>),
     template |-> Listed(<< BuildTemplate(CampaignDoc(CampA, NameA, "B")) >>),
     smtp |-> Listed(<< BuildSMTP(CampaignDoc(CampA, NameA, "B")) >>),
     campaign |-> Listed(<< CampaignObj(CampA, "B") >>)]

Aborted(r) ==
    /\ cmd[r] = "import"
    /\ exit[r] = << 1 >>
    /\ raised[r][1] # "main"

StillThere(k, obj) == \E n \in DOMAIN remote[k] : remote[k][n] = obj

\* The statement of C9 as claimed: when an import aborts, every resource the
\* run created still exists.
C9_CreatedAllRemain ==
    \A r \in Runs :
        Aborted(r) =>
            \A i \in CallsOf(r) :
                (calls[i].op = "post" /\ calls[i].res = "ok") =>
                    StillThere(calls[i].kind, calls[i].out)

\* C9 as amended: when an import aborts, the failing call is the last call
\* the run issues and the server is as that call left it; a resource the run
\* created still exists unless a later step of the run deleted it while
\* replacing a resource of the same name.
C9_NoRollback ==
    \A r \in Runs :
        Aborted(r) =>
            LET f == Max(CallsOf(r))
            IN  /\ calls[f].res = OtherMessage
                /\ pc[r] = << "main", "exited" >>
                /\ Triples(remote) = calls[f].after
                /\ \A i \in CallsOf(r) :
                     (calls[i].op = "post" /\ calls[i].res = "ok") =>
                         \/ StillThere(calls[i].kind, calls[i].out)
                         \/ \E d \in CallsOf(r) :
                              /\ d > i
                              /\ calls[d].op = "delete"
                              /\ calls[d].kind = calls[i].kind
                              /\ calls[d].res = "ok"
                              /\ calls[d].arg = calls[i].out.id

\* C9 witness: the create of the second campaign failed, after the pages,
\* the groups and the first campaign had been created.
C9_Witness ==
    /\ Aborted(1)
    /\ raised[1] = << "campaign", "post" >>
    /\ idx[1] = 2
    /\ \E n \in DOMAIN remote["template"] : remote["template"][n] = new[1]["template"]

\* Every page, group and campaign of the document of run r was created.
AllCompleted(r) ==
    /\ \A p \in DOMAIN file[r].pages :
         CreatedBefore(r, Len(calls) + 1, "page", BuildPage(file[r].pages[p]))
    /\ \A g \in DOMAIN file[r].groups :
         CreatedBefore(r, Len(calls) + 1, "group", BuildGroup(file[r].groups[g]))
    /\ Cardinality({ i \in CallsOf(r) : /\ calls[i].op = "post"
                                        /\ calls[i].kind = "campaign"
                                        /\ calls[i].res = "ok" })
         = Len(file[r].campaigns)

\* C10: a process that met an invalid log level, a connection failure, a
\* missing, unreadable or unparseable file, an exception of load_landings,
\* load_groups or build_campaigns, or (export) no campaign of the assessment
\* has ended with status 1; an import ends with status 0 only when all three
\* have completed, an export only when a campaign of the assessment exists.
C10_ExitStatus ==
    \A r \in Runs :
        /\ raised[r] # NoError => exit[r] = << 1 >>
        /\ exit[r] = << 0 >> => raised[r] = NoError
        /\ (cmd[r] = "import" /\ exit[r] = << 0 >>) => AllCompleted(r)
        /\ (cmd[r] = "export" /\ exit[r] = << 0 >>) =>
              \E n \in DOMAIN remote["campaign"] :
                  StartsWith(remote["campaign"][n].name, assessment_id[r])
        /\ (cmd[r] = "export" /\ pc[r] \notin {<< "export", "logging" >>,
                                               << "export", "connect" >>,
                                               << "export", "exists" >>}
              /\ raised[r] \notin {<< "main", "log_level" >>, << "main", "connect" >>,
                                   << "export", "exists" >>}
              /\ ~ \E n \in DOMAIN remote["campaign"] :
                       StartsWith(remote["campaign"][n].name, assessment_id[r]))
             => exit[r] = << 1 >> /\ raised[r] = << "main", "not_found" >>

\* C10 witness: an import has ended with status 1 on a file that does not
\* parse.
C10_Witness ==
    /\ cmd[1] = "import"
    /\ raised[1] = << "main", "JSONDecodeError" >>
    /\ exit[1] = << 1 >>

\* A second C10 case: an export has ended with status 1, no campaign of the
\* assessment being on the server.
C10_ExportNotFound ==
    /\ cmd[1] = "export"
    /\ raised[1] = << "main", "not_found" >>
    /\ exit[1] = << 1 >>

\* ------------------------------------------------------------------ properties of the export

Exporting(r) == cmd[r] = "export"

\* C11: an export issues no create, update or delete call: every call of the
\* run is a listing, a get by identifier or a campaign summary, and the
\* resources of the server, their timelines and statistics are those the run
\* found.
C11_ExportReadOnly ==
    \A r \in Runs :
        Exporting(r) =>
            /\ \A i \in CallsOf(r) :
                 /\ calls[i].op \in {"get", "summary"}
                 /\ calls[i].after = Triples(remote0)
            /\ remote = remote0

\* C11 witness: an export has run to its end, through the four export
\* functions, and has written the summary.
C11_Witness ==
    /\ Exporting(1)
    /\ exit[1] = << 0 >>
    /\ files[1].summary # << >>
    /\ Len(files[1].reports) = 2
    /\ \E i \in CallsOf(1) : calls[i].op = "summary"

\* The positions of a timeline whose event carries one of the tags, in
\* timeline order.
Positions(rawEvents, tags) ==
    LET at == { i \in DOMAIN rawEvents : rawEvents[i].message \in tags }
    IN  [n \in 1..Cardinality(at) |->
            CHOOSE i \in at : Cardinality({ j \in at : j < i }) = n - 1]

\* Run r is in export_campaigns, has just left it, or was ended by the dump
\* of its result: export[r].ids are the campaigns of export[r].campaigns.
InCampaigns(r) ==
    /\ Exporting(r)
    /\ export[r].campaigns # << >>
    /\ \/ pc[r][1] = "campaigns"
       \/ pc[r] = << "reports", "list" >>
       \/ raised[r] = << "main", "TypeError" >>

\* C12: the click list of a campaign has one entry per 'Clicked Link' event
\* of its timeline and the status list one entry per 'Email Sent' event
\* (SUCCESS) or 'Error Sending Email' event (Failed), both in timeline order;
\* no other event gives an entry.
C12_TimelineClassified ==
    \A r \in Runs :
        InCampaigns(r) =>
            \A n \in DOMAIN export[r].campaigns :
                LET rawEvents == timeline[export[r].ids[n]]
                    clicks == export[r].campaigns[n].clicks
                    status == export[r].campaigns[n].status
                    clicked_at == Positions(rawEvents, {"Clicked Link"})
                    sent_at == Positions(rawEvents, {"Email Sent", "Error Sending Email"})
                IN  /\ Len(clicks) = Len(clicked_at)
                    /\ \A c \in DOMAIN clicks :
                         /\ clicks[c].time = rawEvents[clicked_at[c]].time
                         /\ clicks[c].source_ip = rawEvents[clicked_at[c]].details.browser.address
                    /\ Len(status) = Len(sent_at)
                    /\ \A e \in DOMAIN status :
                         /\ status[e].status =
                              (IF rawEvents[sent_at[e]].message = "Email Sent"
                                  THEN "SUCCESS" ELSE "Failed")
                         /\ status[e].time[2] = rawEvents[sent_at[e]].time[2]

\* C12 witness: export_campaigns has read a timeline of several clicks among
\* other events and a timeline with a failed send.
C12_Witness ==
    /\ InCampaigns(1)
    /\ \E n \in DOMAIN export[1].campaigns :
         /\ Len(export[1].campaigns[n].clicks) >= 2
         /\ Len(timeline[export[1].ids[n]]) > Len(export[1].campaigns[n].clicks)
                                              + Len(export[1].campaigns[n].status)
    /\ \E n \in DOMAIN export[1].campaigns :
         \E e \in DOMAIN export[1].campaigns[n].status :
             export[1].campaigns[n].status[e].status = "Failed"

\* The raw targets of the groups of the assessment of run r, in the order
\* export_targets reads them.
RawTargets(r) ==
    LET mine == SelectSeq(remote["group"], LAMBDA g : StartsWith(g.name, assessment_id[r]))
        all[n \in 0..Len(mine)] ==
            IF n = 0 THEN << >> ELSE all[n - 1] \o mine[n].targets
    IN  all[Len(mine)]

\* The identifiers run r has exported for the address e: in the targets
\* list, in the click lists and in the status lists.
IdentifiersOf(r, e) ==
    { export[r].targets[n].id :
        n \in { m \in DOMAIN export[r].targets : RawTargets(r)[m].email = e } }
    \cup
    (IF InCampaigns(r)
        THEN UNION { LET rawEvents == timeline[export[r].ids[n]]
                         clicked_at == Positions(rawEvents, {"Clicked Link"})
                         sent_at == Positions(rawEvents,
                                              {"Email Sent", "Error Sending Email"})
                     IN  { export[r].campaigns[n].clicks[c].user :
                             c \in { d \in DOMAIN clicked_at :
                                       rawEvents[clicked_at[d]].email = e } }
                         \cup
                         { export[r].campaigns[n].status[c].user :
                             c \in { d \in DOMAIN sent_at :
                                       rawEvents[sent_at[d]].email = e } } :
                     n \in DOMAIN export[r].campaigns }
        ELSE {})

Addresses == { Emails[i] : i \in DOMAIN Emails }

\* C13: the identifier of a target in the targets list, the user of every
\* click of that address and the user of every send status of that address
\* are one value, and two addresses that differ, be it only in letter case,
\* never share an identifier.
C13_IdentifierCorrelation ==
    \A r \in Runs :
        Exporting(r) =>
            /\ Len(export[r].targets) <= Len(RawTargets(r))
            /\ \A e1, e2 \in Addresses :
                 IF e1 = e2
                    THEN Cardinality(IdentifiersOf(r, e1)) <= 1
                    ELSE IdentifiersOf(r, e1) \cap IdentifiersOf(r, e2) = {}

\* C13 witness: two targets whose addresses differ in letter case only have
\* been exported, and both have clicked and were sent the e-mail.
C13_Witness ==
    /\ InCampaigns(1)
    /\ Len(export[1].targets) >= 2
    /\ \E n \in DOMAIN export[1].campaigns :
         /\ Cardinality({ export[1].campaigns[n].clicks[c].user :
                            c \in DOMAIN export[1].campaigns[n].clicks }) = 2
         /\ Cardinality({ export[1].campaigns[n].status[c].user :
                            c \in DOMAIN export[1].campaigns[n].status }) = 2
    /\ IdentifiersOf(1, << "john", "@", "B" >>) # {}
    /\ IdentifiersOf(1, << "John", "@", "B" >>) # {}

\* The data file of run r is complete.
DataFile(r) ==
    /\ Exporting(r)
    /\ files[r].data # << >>
    /\ raised[r] # << "main", "TypeError" >>

\* What the server holds of a target besides its names and its address, with
\* the digest of the address.
PublicTarget(t) ==
    [f \in (DOMAIN t \ {"email", "first_name", "last_name"}) \cup {"hash"} |->
        IF f = "hash" THEN sha256(t.email) ELSE t[f]]

\* An event without the address, with its digest.
PublicEvent(e) ==
    [f \in (DOMAIN e \ {"email"}) \cup {"hash"} |->
        IF f # "hash" THEN e[f]
        ELSE IF e.email \in Addresses THEN sha256(e.email) ELSE << >>]

\* The server as run r may see it without any name or address of a target.
PublicView(r) ==
    LET mine == SelectSeq(remote["campaign"],
                          LAMBDA c : StartsWith(c.name, assessment_id[r]))
    IN  [targets |-> [n \in DOMAIN RawTargets(r) |-> PublicTarget(RawTargets(r)[n])],
         campaigns |-> [n \in DOMAIN mine |->
                          [campaign |-> mine[n],
                           template |-> Head(ById("template", mine[n].template.id)).name,
                           events |-> [i \in DOMAIN timeline[mine[n].id] |->
                                         PublicEvent(timeline[mine[n].id][i])]]]]

\* The data document as a function of the public view.
DocumentOf(view, id) ==
    [targets |->
        [n \in DOMAIN view.targets |->
            [id |-> view.targets[n].hash,
             customer_defined_labels |->
                 IF "position" \in DOMAIN view.targets[n]
                    THEN [a \in {id} |-> << view.targets[n].position >>]
                    ELSE << >>]],
     campaigns |->
        [n \in DOMAIN view.campaigns |->
            LET c == view.campaigns[n].campaign
                events == view.campaigns[n].events
                clicked_at == Positions(events, {"Clicked Link"})
                sent_at == Positions(events, {"Email Sent"})
            IN  [id |-> c.name,
                 start_time |-> c.launch_date,
                 end_time |-> c.completed_date,
                 url |-> c.url,
                 subject |-> c.template.subject,
                 template |-> split(view.campaigns[n].template, "-")[3],
                 clicks |-> [k \in DOMAIN clicked_at |->
                               [user |-> events[clicked_at[k]].hash,
                                source_ip |-> events[clicked_at[k]].details.browser.address,
                                time |-> events[clicked_at[k]].time,
                                application |-> get_application(events[clicked_at[k]])]],
                 status |-> [k \in DOMAIN sent_at |->
                               [user |-> events[sent_at[k]].hash,
                                time |-> events[sent_at[k]].time,
                                status |-> "SUCCESS"]]]]]

\* The names and addresses of the targets of the server.
PlainText ==
    UNION { UNION { { remote["group"][g].targets[t].email,
                      remote["group"][g].targets[t].first_name,
                      remote["group"][g].targets[t].last_name } :
                    t \in DOMAIN remote["group"][g].targets } :
            g \in DOMAIN remote["group"] }
    \cup Addresses

\* C14: a record of the targets, click and status lists has no field for the
\* address or a name of a target and its identifier is none of them; the
\* data document is a function of what the server holds besides the names
\* and addresses and of the digests of the addresses, so two servers that
\* differ in names only give the same document.
C14_NoPlainText ==
    \A r \in Runs :
        /\ Exporting(r) =>
             \A n \in DOMAIN export[r].targets :
                 /\ DOMAIN export[r].targets[n] = {"id", "customer_defined_labels"}
                 /\ export[r].targets[n].id \notin PlainText
        /\ Exporting(r) =>
             \A n \in DOMAIN export[r].campaigns :
                 /\ \A c \in DOMAIN export[r].campaigns[n].clicks :
                      /\ DOMAIN export[r].campaigns[n].clicks[c]
                           = {"user", "source_ip", "time", "application"}
                      /\ export[r].campaigns[n].clicks[c].user \notin PlainText
                 /\ \A c \in DOMAIN export[r].campaigns[n].status :
                      /\ DOMAIN export[r].campaigns[n].status[c] = {"user", "time", "status"}
                      /\ export[r].campaigns[n].status[c].user \notin PlainText
        /\ DataFile(r) =>
             files[r].data = << DocumentOf(PublicView(r), assessment_id[r]) >>

\* C14 witness: a data document with the targets of two groups and with
\* clicks has been written.
C14_Witness ==
    /\ DataFile(1)
    /\ Len(files[1].data[1].targets) = 3
    /\ \E n \in DOMAIN files[1].data[1].campaigns :
         Len(files[1].data[1].campaigns[n].clicks) >= 2

\* write_campaign_summary of run r has just recorded a campaign.
Summarised(r) ==
    /\ Exporting(r)
    /\ idx[r] > 1
    /\ pc[r] = << "summary", "campaign" >> \/ exit[r] = << 0 >>
    /\ level_of(Head(ById("campaign", export[r].ids[idx[r] - 1])).name) # << >>

\* The campaign just recorded, its timeline and its entry of the summary.
JustSummarised(r) == Head(ById("campaign", export[r].ids[idx[r] - 1]))

SummaryEntry(r) == export[r].campaign_data[level_of(JustSummarised(r).name)]

ClickEvents(r) == Positions(timeline[JustSummarised(r).id], {"Clicked Link"})

Clickers(r) ==
    { timeline[JustSummarised(r).id][ClickEvents(r)[n]].email : n \in DOMAIN ClickEvents(r) }

\* C15: the percent_clicks recorded for a campaign lies in [0.0, 1.0], for
\* any timeline and any total-clicked count the server reports.
C15_PercentInRange ==
    \A r \in Runs :
        Summarised(r) =>
            /\ 0 <= SummaryEntry(r).percent_clicks.num
            /\ SummaryEntry(r).percent_clicks.num <= SummaryEntry(r).percent_clicks.den

\* C16: percent_clicks is the number of distinct clickers divided by the
\* total-clicked count the server reports when that count is positive (two
\* clickers of ten give 0.2) and 0.0 when the count is 0, however many
\* clicks the timeline holds; the step never fails on the division.
C16_PercentValue ==
    \A r \in Runs :
        Summarised(r) =>
            LET total == clicked[JustSummarised(r).id]
                percent == SummaryEntry(r).percent_clicks
            IN  /\ SummaryEntry(r).clicks = total
                /\ percent.den > 0
                /\ total > 0 => percent.num * total = Cardinality(Clickers(r)) * percent.den
                /\ total = 0 => percent = [num |-> 0, den |-> 1]
                /\ (total = 10 /\ Cardinality(Clickers(r)) = 2) =>
                      /\ percent = [num |-> 1, den |-> 5]
                      /\ Last(files[r].text).percent_clicks = 200000

\* C16 witness: a campaign with clicks and a total-clicked count of 0 has
\* been recorded.
C16_Witness ==
    /\ Summarised(1)
    /\ clicked[JustSummarised(1).id] = 0
    /\ Cardinality(Clickers(1)) = 2

\* A second C16 case: two clickers and a total-clicked count of 10.
C16_TwoOfTen ==
    /\ Summarised(1)
    /\ clicked[JustSummarised(1).id] = 10
    /\ Cardinality(Clickers(1)) = 2

\* C17: the unique-click count of a campaign is at most the number of its
\* click events, and is 0 exactly when it has none.
C17_UniqueAtMostClicks ==
    \A r \in Runs :
        Summarised(r) =>
            /\ SummaryEntry(r).unique_clicks <= Len(ClickEvents(r))
            /\ SummaryEntry(r).unique_clicks = 0 <=> Len(ClickEvents(r)) = 0

\* C17 witness: a campaign with more click events than clickers has been
\* recorded.
C17_Witness ==
    /\ Summarised(1)
    /\ SummaryEntry(1).unique_clicks = 2
    /\ Len(ClickEvents(1)) = 3

\* A second C17 case: a campaign without a click event.
C17_NoClick ==
    /\ Summarised(1)
    /\ SummaryEntry(1).unique_clicks = 0
    /\ timeline[JustSummarised(1).id] # << >>

\* The campaigns and the groups of the assessment of run r, in listing order.
Mine(r, k) == SelectSeq(remote[k], LAMBDA x : StartsWith(x.name, assessment_id[r]))

\* Those of the campaigns whose name ends in a level.
WithLevel(r) == SelectSeq(Mine(r, "campaign"), LAMBDA c : level_of(c.name) # << >>)

\* The export of run r has ended with status 0.
Exported(r) == Exporting(r) /\ exit[r] = << 0 >>

\* C18: a campaign whose name does not end in '_level-N', N in 1..6, gives
\* no block of the text report and changes no entry of the summary, the
\* campaigns listed after it that do match are recorded, and the summary is
\* written.
C18_MalformedSkipped ==
    \A r \in Runs :
        /\ Exported(r) =>
             /\ files[r].summary = << export[r].campaign_data >>
             /\ Len(files[r].text) = Len(WithLevel(r)) + 1
             /\ \A n \in DOMAIN WithLevel(r) :
                  files[r].text[n + 1].campaign = WithLevel(r)[n].name
             /\ \A level \in Levels :
                  (\A n \in DOMAIN WithLevel(r) : level_of(WithLevel(r)[n].name) # level)
                      => files[r].summary[1][level] = campaign_data_template[level]
        /\ (/\ Exporting(r)
            /\ pc[r] = << "summary", "campaign" >>
            /\ idx[r] > 1
            /\ level_of(Head(ById("campaign", export[r].ids[idx[r] - 1])).name) = << >>
            /\ WithLevel(r) = SelectSeq(WithLevel(r), LAMBDA c : c.id > export[r].ids[idx[r] - 1]))
             => /\ export[r].campaign_data = campaign_data_template
                /\ Len(files[r].text) = 1

\* C18 witness: a campaign without a level was listed first, and the
\* campaign after it has been recorded and the summary written.
C18_Witness ==
    /\ Exported(1)
    /\ Len(Mine(1, "campaign")) = 2
    /\ level_of(Mine(1, "campaign")[1].name) = << >>
    /\ Len(files[1].text) = 2
    /\ files[1].text[2].campaign = Mine(1, "campaign")[2].name

\* Run r has built the user report of a campaign.
Reported(r) == Exporting(r) /\ pc[r] = << "reports", "summary" >>

ClickSeconds(rawEvents) ==
    { rawEvents[i].time[2] :
        i \in { j \in DOMAIN rawEvents : rawEvents[j].message = "Clicked Link" } }

\* C19: the first_report of a campaign's user report is the earliest time of
\* its click events, to the second, whatever their order in the timeline,
\* and 'No clicks reported' when it has no click event.
C19_FirstReport ==
    \A r \in Runs :
        Reported(r) =>
            LET seconds == ClickSeconds(timeline[export[r].ids[idx[r]]])
                doc == export[r].user_report_doc
            IN  /\ doc.campaign = << "str", export[r].ids[idx[r]] >>
                /\ IF seconds = {}
                      THEN doc.first_report = << "No clicks reported" >>
                      ELSE /\ Len(doc.first_report) = 2
                           /\ doc.first_report[2] \in seconds
                           /\ \A sec \in seconds : doc.first_report[2] <= sec

\* C19 witness: the user report of a campaign whose first click event is not
\* its earliest has been built.
C19_Witness ==
    /\ Reported(1)
    /\ LET rawEvents == timeline[export[1].ids[idx[1]]]
           clicked_at == Positions(rawEvents, {"Clicked Link"})
       IN  /\ Len(clicked_at) >= 2
           /\ \E n \in DOMAIN clicked_at :
                rawEvents[clicked_at[n]].time[2] < rawEvents[clicked_at[1]].time[2]

\* A second C19 case: the user report of a campaign without a click event.
C19_NoClicks ==
    /\ Reported(1)
    /\ export[1].user_report_doc.first_report = << "No clicks reported" >>

\* A get by identifier or a summary, not a listing: the call names an id.
ByIdentifier(call) == ToString(call.arg) # ToString(None)

\* C20: an export reads by identifier only groups and campaigns whose name
\* starts with the assessment identifier; the targets, the campaigns of the
\* data document, the user reports and the blocks of the text report are
\* those of these groups and campaigns, in listing order.
C20_ExportScope ==
    \A r \in Runs :
        Exporting(r) =>
            /\ \A i \in CallsOf(r) :
                 (calls[i].kind \in {"group", "campaign"} /\ ByIdentifier(calls[i])) =>
                     \E n \in DOMAIN Mine(r, calls[i].kind) :
                         Mine(r, calls[i].kind)[n].id = calls[i].arg
            /\ Len(export[r].targets) <= Len(RawTargets(r))
            /\ \A n \in DOMAIN export[r].targets :
                 export[r].targets[n].id = sha256(RawTargets(r)[n].email)
            /\ DataFile(r) =>
                 /\ Len(files[r].data[1].targets) = Len(RawTargets(r))
                 /\ Len(files[r].data[1].campaigns) = Len(Mine(r, "campaign"))
                 /\ \A n \in DOMAIN Mine(r, "campaign") :
                      files[r].data[1].campaigns[n].id = Mine(r, "campaign")[n].name
            /\ Len(files[r].reports) <= Len(Mine(r, "campaign"))
            /\ \A n \in DOMAIN files[r].reports :
                 files[r].reports[n].name = << assessment_id[r], Mine(r, "campaign")[n].id >>
            /\ Exported(r) =>
                 /\ Len(files[r].reports) = Len(Mine(r, "campaign"))
                 /\ \A n \in 2..Len(files[r].text) :
                      StartsWith(files[r].text[n].campaign, assessment_id[r])

\* C20 witness: an export has ended on a server that lists a group and a
\* campaign of another assessment before those of its own.
C20_Witness ==
    /\ Exported(1)
    /\ Len(remote["group"]) > Len(Mine(1, "group"))
    /\ Len(remote["campaign"]) > Len(Mine(1, "campaign"))
    /\ ~ StartsWith(remote["group"][1].name, assessment_id[1])
    /\ ~ StartsWith(remote["campaign"][1].name, assessment_id[1])
    /\ Len(files[1].text) = 2

\* ------------------------------------------------------------------ properties of two imports at once

Importing(r) == cmd[r] = "import"

\* The other of the two runs.
Other(r) == CHOOSE q \in Runs : q # r

\* Run r is about to issue its campaign create: every upsert of the run has
\* returned successfully.
AtCampaignCreate(r) == Importing(r) /\ pc[r] = << "campaign", "post" >>

\* The group named NameA is absent.
GroupAbsent == SameName(remote["group"], NameA) = << >>

\* A group named NameA carries the definition of the document of run q.
GroupOf(q) ==
    \E n \in DOMAIN remote["group"] : GroupIs(remote["group"][n], file[q].groups[1])

\* Both runs have ended with status 0.
BothDone == \A r \in Runs : Importing(r) /\ exit[r] = << 0 >>

\* C21: with two imports at once that upsert one group name with different
\* definitions, a run that is back from its upsert and about to create its
\* campaign finds the group gone or redefined only through a delete call
\* the other run issued for it; after both runs one group of the name is
\* left, with the definition of either run.
C21_DestructiveInterleaving ==
    /\ \A r \in Runs :
         (AtCampaignCreate(r) /\ Importing(Other(r))
            /\ ~ StillThere("group", new[r]["group"])) =>
             /\ GroupAbsent \/ GroupOf(Other(r))
             /\ \E i \in CallsOf(Other(r)) :
                  /\ calls[i].op = "delete"
                  /\ calls[i].kind = "group"
                  /\ calls[i].res = "ok"
                  /\ calls[i].arg = new[r]["group"].id
    /\ BothDone =>
         /\ Len(SameName(remote["group"], NameA)) = 1
         /\ \E r \in Runs : StillThere("group", new[r]["group"])

\* C21 witness: run 1 is back from the upsert of the group and about to
\* create its campaign, and the group is absent.
C21_Witness ==
    /\ AtCampaignCreate(1) /\ Importing(2)
    /\ "id" \in DOMAIN new[1]["group"]
    /\ GroupAbsent

\* A second C21 case: at its campaign create run 1 finds the group with the
\* definition of run 2.
C21_OtherDefinition ==
    /\ AtCampaignCreate(1) /\ Importing(2)
    /\ ~ GroupOf(1)
    /\ GroupOf(2)

\* The two outcomes of C21, from the empty server: the definition of run 1
\* remains, or that of run 2.
C21_FirstRemains ==
    /\ BothDone /\ remote0["group"] = << >> /\ GroupOf(1) /\ ~ GroupOf(2)

C21_SecondRemains ==
    /\ BothDone /\ remote0["group"] = << >> /\ GroupOf(2) /\ ~ GroupOf(1)

\* ------------------------------------------------------------------ more properties of the import

\* Run r is in the upsert of kind k, back from it, or was ended by it.
InUpsert(r, k) ==
    /\ Importing(r)
    /\ \/ pc[r] \in { << k, "post" >>, << k, "get" >>, << k, "delete" >>, << k, "loaded" >> }
       \/ exit[r] = << 1 >> /\ raised[r] \in { << k, "post" >>, << k, "get" >>, << k, "delete" >> }

\* The list calls of the while loop run r is in.
ListsOf(r) == { i \in CallsOf(r) : i >= LoopStart(r) /\ calls[i].op = "get" }

\* An upsert has begun: the object is built, no create issued yet.
Begun(r, k) == Importing(r) /\ pc[r] = << k, "post" >> /\ tries[r] = 0

\* The upsert is over: it has returned, or an error has ended the run.
Over(r, k) == pc[r] = << k, "loaded" >> \/ exit[r] # << >>

\* C22: on a server that answers the name conflict exactly when the name is
\* in use and whose deletes remove the resource, with no other actor, every
\* upsert issues at most two create calls and at most one list call, and
\* every upsert that begins ends: it returns or an error ends the run.
C22_UpsertTerminates ==
    /\ [](\A r \in Runs, k \in UpsertKinds :
            InUpsert(r, k) =>
                /\ tries[r] <= 2
                /\ tries[r] >= 1 => Cardinality(ListsOf(r)) <= 1)
    /\ \A r \in Runs, k \in UpsertKinds : Begun(r, k) ~> Over(r, k)

\* C22 witness: an upsert has returned after a name conflict, with two
\* creates, one list call and a delete for each of the resources listed.
C22_Witness ==
    /\ InUpsert(1, "group")
    /\ pc[1] = << "group", "loaded" >>
    /\ tries[1] = 2
    /\ Cardinality(ListsOf(1)) = 1
    /\ Cardinality({ i \in CallsOf(1) : i >= LoopStart(1) /\ calls[i].op = "delete" }) = MaxDup

\* The campaign creates in the history.
CampaignCreates == { j \in DOMAIN calls : calls[j].op = "post" /\ calls[j].kind = "campaign" }

\* The campaign create run r issued before position j, or 0.
PrevCreate(r, j) ==
    LET earlier == { i \in CallsOf(r) \cap CampaignCreates : i < j }
    IN  IF earlier = {} THEN 0 ELSE Max(earlier)

\* The calls of build_campaigns for the campaign whose create is at j: those
\* the run issued for templates, SMTP profiles and campaigns since its
\* previous campaign create, the create at j included.
BuildCalls(j) ==
    SelectSeq(SubSeq(calls, PrevCreate(calls[j].run, j) + 1, j),
              LAMBDA c : c.run = calls[j].run /\ c.kind \in {"template", "smtp", "campaign"})

OfKind(seq, k) == SelectSeq(seq, LAMBDA c : c.kind = k)

Rank(k) == CASE k = "template" -> 1 [] k = "smtp" -> 2 [] k = "campaign" -> 3

\* C23: the calls build_campaigns issues for a campaign are, in this order,
\* those of the template upsert, ending in a successful create, those of the
\* SMTP upsert, ending in a successful create, the listing of the campaigns,
\* a delete for every listed campaign of the name, and one campaign create;
\* no campaign delete follows a campaign create, and a failed campaign
\* create is the last call of the run.
C23_BuildOrder ==
    /\ \A j \in CampaignCreates :
         LET build == BuildCalls(j)
             template == OfKind(build, "template")
             smtp == OfKind(build, "smtp")
             campaign == OfKind(build, "campaign")
             listed == SameName(campaign[1].out, calls[j].arg.name)
         IN  /\ \A a, b \in DOMAIN build : a < b => Rank(build[a].kind) <= Rank(build[b].kind)
             /\ template # << >> /\ Last(template).op = "post" /\ Last(template).res = "ok"
             /\ smtp # << >> /\ Last(smtp).op = "post" /\ Last(smtp).res = "ok"
             /\ campaign[1].op = "get" /\ campaign[1].res = "ok"
             /\ Len(campaign) = Len(listed) + 2
             /\ \A n \in DOMAIN listed :
                  /\ campaign[n + 1].op = "delete"
                  /\ campaign[n + 1].res = "ok"
                  /\ campaign[n + 1].arg = listed[n].id
             /\ calls[j].res # "ok" =>
                  /\ j = Max(CallsOf(calls[j].run))
                  /\ exit[calls[j].run] = << 1 >>
    /\ \A i \in DOMAIN calls :
         (calls[i].op = "delete" /\ calls[i].kind = "campaign") =>
             LET before == calls[Max({ h \in CallsOf(calls[i].run) : h < i })]
             IN  before.kind = "campaign" /\ before.op \in {"get", "delete"} /\ before.res = "ok"

\* C23 witness: a campaign create has failed after the template and the SMTP
\* profile were re-created following a name conflict and the campaigns of
\* the name were deleted.
C23_Witness ==
    \E j \in CampaignCreates :
        /\ calls[j].res # "ok"
        /\ Len(OfKind(BuildCalls(j), "template")) > 1
        /\ Len(OfKind(BuildCalls(j), "smtp")) > 1
        /\ Len(OfKind(BuildCalls(j), "campaign")) > 2

\* The identifier the server assigned at the n-th successful create of kind
\* k of run r.
CreatedId(r, k, n) ==
    LET created == SelectSeq(calls, LAMBDA c : c.run = r /\ c.op = "post" /\ c.kind = k
                                               /\ c.res = "ok")
    IN  created[n].out.id

\* load_landings has just returned to main, and load_groups.
PagesReturned(r) == Importing(r) /\ pc[r] = << "group", "for" >> /\ idx[r] = 1
GroupsReturned(r) == Importing(r) /\ pc[r] = << "campaign", "for" >> /\ idx[r] = 1

\* C24: load_landings and load_groups return the document's own list, same
\* elements in the same order, each with the id of its successful create,
\* with and without name conflicts on the way.
C24_ReturnedIdentifiers ==
    \A r \in Runs :
        /\ PagesReturned(r) =>
             /\ Len(assessment[r].pages) = Len(file[r].pages)
             /\ \A n \in DOMAIN file[r].pages :
                  assessment[r].pages[n] = WithId(file[r].pages[n], CreatedId(r, "page", n))
        /\ GroupsReturned(r) =>
             /\ Len(assessment[r].groups) = Len(file[r].groups)
             /\ \A n \in DOMAIN file[r].groups :
                  assessment[r].groups[n] = WithId(file[r].groups[n], CreatedId(r, "group", n))

\* The campaigns of the assessment of run r whose name ends in the level.
AtLevel(r, level) == SelectSeq(WithLevel(r), LAMBDA c : level_of(c.name) = level)

\* The addresses that clicked in a campaign.
ClickersOf(id) ==
    { timeline[id][i].email :
        i \in { j \in DOMAIN timeline[id] : timeline[id][j].message = "Clicked Link" } }

\* C25: when write_campaign_summary has gone through the campaigns of the
\* assessment, the entry of a level holds the subject, sender, dates,
\* redirect, clicks, unique clicks and percentage of the last listed campaign
\* of that level, a level without campaign holds the entry of the template
\* file, and the text report has one block per campaign with a level, in
\* listing order.
C25_LevelKeyedSummary ==
    \A r \in Runs :
        Exported(r) =>
            /\ \A level \in Levels :
                 LET entry == files[r].summary[1][level]
                 IN  IF AtLevel(r, level) = << >>
                        THEN entry = campaign_data_template[level]
                        ELSE LET c == Last(AtLevel(r, level))
                             IN  /\ entry.subject = c.template.subject
                                 /\ entry.sender = c.smtp.from_address
                                 /\ entry.start_date = c.launch_date
                                 /\ entry.end_date = c.completed_date
                                 /\ entry.redirect = c.url
                                 /\ entry.clicks = clicked[c.id]
                                 /\ entry.unique_clicks = Cardinality(ClickersOf(c.id))
                                 /\ entry.percent_clicks.den > 0
                                 /\ IF clicked[c.id] > 0
                                       THEN entry.percent_clicks.num * clicked[c.id]
                                              = Cardinality(ClickersOf(c.id)) * entry.percent_clicks.den
                                       ELSE entry.percent_clicks.num = 0
            /\ Len(files[r].text) = Len(WithLevel(r)) + 1
            /\ \A n \in DOMAIN WithLevel(r) :
                 LET block == files[r].text[n + 1]
                     c == WithLevel(r)[n]
                 IN  /\ block.campaign = c.name
                     /\ block.subject = c.template.subject
                     /\ block.clicks = clicked[c.id]
                     /\ block.unique_clicks = Cardinality(ClickersOf(c.id))

\* C25 witness: the summary of an assessment with two campaigns of one level
\* that differ in every value has been written.
C25_Witness ==
    /\ Exported(1)
    /\ \E level \in Levels :
         /\ Len(AtLevel(1, level)) = 2
         /\ AtLevel(1, level)[1].template.subject # AtLevel(1, level)[2].template.subject
         /\ clicked[AtLevel(1, level)[1].id] # clicked[AtLevel(1, level)[2].id]
         /\ ClickersOf(AtLevel(1, level)[2].id) # {}
    /\ \E level \in Levels : AtLevel(1, level) = << >>

\* The names the document of run r defines for kind k.
DocNames(r, k) ==
    CASE k = "page" -> { file[r].pages[n].name : n \in DOMAIN file[r].pages }
      [] k = "group" -> { file[r].groups[n].name : n \in DOMAIN file[r].groups }
      [] k = "template" -> { file[r].campaigns[n].template.name : n \in DOMAIN file[r].campaigns }
      [] k = "smtp" -> { file[r].campaigns[n].smtp.name : n \in DOMAIN file[r].campaigns }
      [] k = "campaign" -> { file[r].campaigns[n].name : n \in DOMAIN file[r].campaigns }

\* The listing the delete call at position i acts on: the last one its run got
\* for that kind.
ListingOf(i) ==
    calls[Max({ g \in CallsOf(calls[i].run) :
                  /\ g < i
                  /\ calls[g].op = "get" /\ calls[g].kind = calls[i].kind
                  /\ calls[g].res = "ok" })].out

\* C26: every delete call of an import is for a listed resource whose kind
\* and name are those of a resource the document defines, and every resource
\* the server held with another name, or with that name in another kind, is
\* still there, unchanged.
C26_DeletesOnlyDocumentNames ==
    \A r \in Runs :
        Importing(r) =>
            /\ \A i \in CallsOf(r) :
                 calls[i].op = "delete" =>
                     \E n \in DOMAIN ListingOf(i) :
                         /\ ListingOf(i)[n].id = calls[i].arg
                         /\ ListingOf(i)[n].name \in DocNames(r, calls[i].kind)
            /\ \A k \in Kinds :
                 \A n \in DOMAIN remote0[k] :
                     remote0[k][n].name \notin DocNames(r, k) => StillThere(k, remote0[k][n])

\* C26 witness: an import has ended that deleted a page and a campaign, on a
\* server that held a template of another name and a campaign with the name
\* of the document's page.
C26_Witness ==
    /\ Importing(1) /\ exit[1] = << 0 >>
    /\ \E i \in CallsOf(1) : calls[i].op = "delete" /\ calls[i].kind = "page"
    /\ \E i \in CallsOf(1) : calls[i].op = "delete" /\ calls[i].kind = "campaign"
    /\ \E n \in DOMAIN remote["template"] : remote["template"][n].name \notin DocNames(1, "template")
    /\ \E n \in DOMAIN remote["campaign"] : remote["campaign"][n].name \in DocNames(1, "page")

\* The campaign create of run r has failed and ended the run.
CreateFailed(r) ==
    /\ Importing(r)
    /\ exit[r] = << 1 >>
    /\ raised[r] = << "campaign", "post" >>

\* C27: after a failed campaign create no campaign of that name is on the
\* server, the campaigns of that name the server held are deleted and not
\* restored, and the template and the SMTP profile the run upserted for the
\* campaign are there.
C27_FailedCreateLeavesNone ==
    \A r \in Runs :
        CreateFailed(r) =>
            LET name == file[r].campaigns[idx[r]].name
            IN  /\ SameName(remote["campaign"], name) = << >>
                /\ \A n \in DOMAIN remote0["campaign"] :
                     remote0["campaign"][n].name = name
                         => ~ StillThere("campaign", remote0["campaign"][n])
                /\ StillThere("template", new[r]["template"])
                /\ StillThere("smtp", new[r]["smtp"])
                /\ TemplateIs(new[r]["template"], file[r].campaigns[idx[r]].template)
                /\ SmtpIs(new[r]["smtp"], file[r].campaigns[idx[r]].smtp)

\* C27 witness: the create of a campaign has failed on a server that held
\* campaigns of its name.
C27_Witness ==
    /\ CreateFailed(1)
    /\ idx[1] = 1
    /\ SameName(remote0["campaign"], file[1].campaigns[1].name) # << >>

\* ------------------------------------------------------------------ properties of set_date

\* The instant of a campaign date, in hours UTC.
Instant(text) == text[2] - text[4]

\* The dates passed with a type in the first n calls.
PassedWith(type_, n) == { passed[i][2] : i \in { j \in 1..n : passed[j][1] = type_ } }

\* The assessment object after the first n calls.
DatesAfter(n) ==
    LET after[i \in 0..n] ==
            IF i = 0 THEN [start_date |-> NoDate, end_date |-> NoDate]
            ELSE set_date(passed[i][1], after[i - 1], passed[i][2])
    IN  after[n]

\* C28: after any sequence of set_date calls on an assessment whose dates
\* were unset, start_date is a date passed as start_date and none passed as
\* start_date is earlier, end_date is a date passed as end_date and none is
\* later, a field no date was passed for is unset; no call moves start_date
\* later or end_date earlier, and a call leaves the field of the other type
\* as it was.
C28_DateBounds ==
    /\ dates = DatesAfter(Len(passed))
    /\ IF PassedWith("start_date", Len(passed)) = {}
          THEN dates.start_date = NoDate
          ELSE /\ dates.start_date \in PassedWith("start_date", Len(passed))
               /\ \A d \in PassedWith("start_date", Len(passed)) :
                    Instant(dates.start_date) <= Instant(d)
    /\ IF PassedWith("end_date", Len(passed)) = {}
          THEN dates.end_date = NoDate
          ELSE /\ dates.end_date \in PassedWith("end_date", Len(passed))
               /\ \A d \in PassedWith("end_date", Len(passed)) :
                    Instant(dates.end_date) >= Instant(d)
    /\ \A n \in 1..Len(passed) :
         LET before == DatesAfter(n - 1)
             after == DatesAfter(n)
         IN  /\ passed[n][1] = "start_date" =>
                  /\ after.end_date = before.end_date
                  /\ before.start_date # NoDate =>
                       Instant(after.start_date) <= Instant(before.start_date)
             /\ passed[n][1] = "end_date" =>
                  /\ after.start_date = before.start_date
                  /\ before.end_date # NoDate =>
                       Instant(after.end_date) >= Instant(before.end_date)

\* C28 witness: after three calls the start date is the second date passed,
\* whose local time is later and whose instant is earlier than the first's,
\* and the end date the only one passed.
C28_Witness ==
    /\ Len(passed) = 3
    /\ passed[1][1] = "start_date" /\ passed[2][1] = "start_date" /\ passed[3][1] = "end_date"
    /\ passed[2][2][2] > passed[1][2][2]
    /\ Instant(passed[2][2]) < Instant(passed[1][2])
    /\ dates.start_date = passed[2][2]
    /\ dates.end_date = passed[3][2]

====
